---- MODULE Spec2Model ----
(***************************************************************************)
(* paasbaan: access groups, permissions, resource-level grants, the        *)
(* node-cache memoization of the AccessControl facade and the Express      *)
(* authorization middleware.                                               *)
(*                                                                         *)
(* The relational store is modelled by the sets of ACTIVE rows of each     *)
(* table (a paranoid model hides soft-deleted rows from every ORM query,   *)
(* so a soft-deleted and a hard-deleted row are both "not in the set").    *)
(* Every facade method is one action: the calls are taken one at a time,   *)
(* each running to completion before the next starts.                      *)
(***************************************************************************)
EXTENDS Integers, Sequences, FiniteSets, TLC

VARIABLES
    AccessGroup,                \* active rows of access_groups: [id, name]
    nextAccessGroupId,          \* autoincrement of access_groups
    AccessGroupPermission,      \* active rows of access_group_permissions: <<access_group_id, permission_id>>
    AccessGroupUser,            \* active rows of access_groups_users: <<access_group_id, user_id>>
    ResourceLevelPermissionType,\* active rows of resource_level_permissions_types: [id, permission_id, name]
    nextResourceTypeId,         \* autoincrement of resource_level_permissions_types
    ResourceLevelPermission,    \* active rows of resource_level_permissions
    cache,                      \* this.cache: "in-memory", or "false" for a disabled cache
    cacheEngine,                \* the NodeCache: a function from the keys it holds to their values
    createdPermission,          \* rows of permissions created since the start: [id, code]
    pending,                    \* per caller, the call suspended at an await after its findOne
    last                        \* the call that completed last, with its arguments and outcome

vars == <<AccessGroup, nextAccessGroupId, AccessGroupPermission, AccessGroupUser,
          ResourceLevelPermissionType, nextResourceTypeId, ResourceLevelPermission,
          cache, cacheEngine, createdPermission, pending, last>>

storeVars == <<AccessGroup, nextAccessGroupId, AccessGroupPermission, AccessGroupUser,
               ResourceLevelPermissionType, nextResourceTypeId, ResourceLevelPermission>>

(***************************************************************************)
(* Bounds of the model.                                                    *)
(***************************************************************************)
MaxAccessGroups == 2            \* access_groups rows ever created
MaxResourceTypes == 2           \* resource_level_permissions_types rows ever created
MaxCreatedPermissions == 2      \* permissions rows created after the start

(***************************************************************************)
(* The universe the calls draw their arguments from.                       *)
(***************************************************************************)
\* rows of the users table (user_id is a foreign key to it)
User == {1, 2}

\* rows of the permissions table at the start; no operation of the managers deletes
\* one. Row 1 is the one setupInitialData creates.
Permission ==
    { [id |-> 1, code |-> "super_admin"],
      [id |-> 2, code |-> "read:users"],
      [id |-> 3, code |-> "update:users"] }

PermissionIds == { p.id : p \in Permission }

AccessGroupIds == 1 .. MaxAccessGroups

SuperAdminGroupName == "Super Admin"

ResourceNames == { "location" }

\* String.prototype.trim on the names the calls are given
trim(name) ==
    CASE name = " Editors " -> "Editors"
      [] name = " read:users " -> "read:users"
      [] OTHER -> name

\* the callers whose calls can be in flight together
Callers == { 1, 2 }

\* a caller with no call in flight
Idle == [op |-> "idle"]

\* the rows of the permissions table
Permission_findAll == Permission \cup createdPermission

\* Permission.findOne({ where: { code } })
Permission_findByCode(code) == { p \in Permission_findAll : p.code = code }

Permission_findByPk(id) == { p \in Permission_findAll : p.id = id }

codeOf(id) == (CHOOSE p \in Permission_findAll : p.id = id).code

(***************************************************************************)
(* ORM queries of the managers.                                            *)
(***************************************************************************)
\* AccessGroup.findByPk(id): the active row, if any
AccessGroup_findByPk(id) == { g \in AccessGroup : g.id = id }

\* AccessGroup.findOne({ where: { name } })
AccessGroup_findByName(name) == { g \in AccessGroup : g.name = name }

\* the query with the join condition agp.access_group_id = agu.access_group_id left out
getUserPermissionsCrossJoin(userId) ==
    { p.code : p \in { q \in Permission_findAll :
                         /\ \E g \in AccessGroupIds : <<g, q.id>> \in AccessGroupPermission
                         /\ \E g \in AccessGroupIds : <<g, userId>> \in AccessGroupUser } }

\* the raw SQL of AccessGroupsManager.getUserPermissions: permissions joined with
\* access_group_permissions joined with access_groups_users; access_groups is not joined
AccessGroupsManager_getUserPermissions(userId) ==
    { p.code : p \in { q \in Permission_findAll :
                         \E g \in AccessGroupIds :
                            /\ <<g, q.id>> \in AccessGroupPermission
                            /\ <<g, userId>> \in AccessGroupUser } }

\* User.findAll({ include: [{ model: AccessGroup, as: 'access_groups', where: { id }, required: true }] })
getUsersInAccessGroup(accessGroupId) ==
    { u \in User : /\ <<accessGroupId, u>> \in AccessGroupUser
                   /\ AccessGroup_findByPk(accessGroupId) # {} }

(***************************************************************************)
(* The NodeCache.                                                          *)
(***************************************************************************)
userPermissionsKey(userId) == <<"user_permissions", userId>>

resourcePermissionsKey(user_id, resource_name, permission_id) ==
    <<"resource_permissions", user_id, resource_name, permission_id>>

cache_has(c, key) == key \in DOMAIN c

cache_set(c, key, value) ==
    [k \in (DOMAIN c) \cup {key} |-> IF k = key THEN value ELSE c[k]]

cache_del(c, keys) == [k \in (DOMAIN c) \ keys |-> c[k]]

\* clearUserCache deleting nothing
clearUserCacheNothing(c, userIds) == c

\* AccessControl.clearUserCache applied to each of userIds: deletes the user_permissions_<id> key only
clearUserCache(c, userIds) ==
    IF cache = "in-memory"
    THEN cache_del(c, { userPermissionsKey(u) : u \in userIds })
    ELSE c

\* the value AccessControl.getUserPermissions returns in the current state
\* (an array is truthy even when empty, so a cached [] is returned as it is)
getUserPermissionsValue(userId) ==
    IF cache = "in-memory" /\ cache_has(cacheEngine, userPermissionsKey(userId))
    THEN cacheEngine[userPermissionsKey(userId)]
    ELSE AccessGroupsManager_getUserPermissions(userId)

\* the cache after AccessControl.getUserPermissions has returned
getUserPermissionsCache(userId) ==
    IF cache = "in-memory" /\ ~cache_has(cacheEngine, userPermissionsKey(userId))
    THEN cache_set(cacheEngine, userPermissionsKey(userId),
                   AccessGroupsManager_getUserPermissions(userId))
    ELSE cacheEngine

\* new Error(...) as the create, rename and bulk calls raise it
GenericError == [name |-> "Error"]

\* new DuplicateAccessGroupNameError(name)
DuplicateAccessGroupNameError(name) ==
    [ name |-> "DuplicateAccessGroupNameError", code |-> "DUPLICATE_ACCESS_GROUP_NAME",
      duplicateName |-> name ]

\* new DuplicatePermissionCodeError(code)
DuplicatePermissionCodeError(code) ==
    [ name |-> "DuplicatePermissionCodeError", code |-> "DUPLICATE_PERMISSION_CODE",
      duplicateCode |-> code ]

Call(op, args, ok, ret) == [op |-> op, args |-> args, ok |-> ok, ret |-> ret]

NoCall == Call("none", <<>>, TRUE, 0)

(***************************************************************************)
(* Initial state: the store after validateAndSetupDb has run on a database *)
(* whose permissions table holds the rows of Permission.                   *)
(***************************************************************************)
InitStore ==
    /\ AccessGroup = { [id |-> 1, name |-> SuperAdminGroupName] }
    /\ nextAccessGroupId = 2
    /\ AccessGroupPermission = { <<1, 1>> }
    /\ AccessGroupUser = {}
    /\ ResourceLevelPermissionType = {}
    /\ nextResourceTypeId = 1
    /\ ResourceLevelPermission = {}
    /\ cacheEngine = << >>
    /\ createdPermission = {}
    /\ pending = [caller \in Callers |-> Idle]
    /\ last = NoCall

(***************************************************************************)
(* AccessControl facade: flat permissions.                                 *)
(***************************************************************************)
\* AccessControl.getUserPermissions(userId)
getUserPermissions(userId) ==
    /\ last' = Call("getUserPermissions", <<userId>>, TRUE, getUserPermissionsValue(userId))
    /\ cacheEngine' = getUserPermissionsCache(userId)
    /\ UNCHANGED <<storeVars, cache, createdPermission, pending>>

\* Array.isArray(permissions) ? permissions : [permissions]; the argument is
\* [isArray, value], value a sequence of codes or, when not an array, one code
permissionsArray(permissions) ==
    IF permissions.isArray THEN permissions.value ELSE << permissions.value >>

\* permissionsArray.every(permission => userPermissions.includes(permission))
includesEvery(codes, userPermissions) ==
    \A i \in 1 .. Len(codes) : codes[i] \in userPermissions

\* permissionsArray.some(permission => userPermissions.includes(permission))
includesSome(codes, userPermissions) ==
    \E i \in 1 .. Len(codes) : codes[i] \in userPermissions

\* what AccessControl.hasPermission did: whether its getUserPermissions threw, the
\* array it got otherwise, and the boolean it returned
HasPermission(threw, userPermissions, result) ==
    [threw |-> threw, userPermissions |-> userPermissions, result |-> result]

\* AccessControl.hasPermission(userId, permissions); storeFails: the store query of
\* getUserPermissions throws (a cached value is returned before the store is asked)
hasPermission(userId, permissions, storeFails) ==
    LET args == <<userId, permissions>>
        threw == storeFails /\ ~(cache = "in-memory" /\ cache_has(cacheEngine, userPermissionsKey(userId)))
        userPermissions == getUserPermissionsValue(userId)
    IN /\ IF threw
          THEN /\ last' = Call("hasPermission", args, TRUE, HasPermission(TRUE, {}, FALSE))
               /\ UNCHANGED cacheEngine
          ELSE /\ last' = Call("hasPermission", args, TRUE,
                               HasPermission(FALSE, userPermissions,
                                  \/ "super_admin" \in userPermissions
                                  \/ includesSome(permissionsArray(permissions), userPermissions)))
               /\ cacheEngine' = getUserPermissionsCache(userId)
       /\ UNCHANGED <<storeVars, cache, createdPermission, pending>>

\* AccessControl.createAccessGroup -> AccessGroupsManager.createAccessGroup
createAccessGroup(name) ==
    /\ nextAccessGroupId <= MaxAccessGroups
    /\ IF AccessGroup_findByName(trim(name)) # {}
       THEN /\ last' = Call("createAccessGroup", <<name>>, FALSE,
                            DuplicateAccessGroupNameError(trim(name)))
            /\ UNCHANGED <<AccessGroup, nextAccessGroupId>>
       ELSE /\ AccessGroup' = AccessGroup \cup { [id |-> nextAccessGroupId, name |-> trim(name)] }
            /\ nextAccessGroupId' = nextAccessGroupId + 1
            /\ last' = Call("createAccessGroup", <<name>>, TRUE, nextAccessGroupId)
    /\ UNCHANGED <<AccessGroupPermission, AccessGroupUser, ResourceLevelPermissionType,
                   nextResourceTypeId, ResourceLevelPermission, cache, cacheEngine,
                   createdPermission, pending>>

\* findOne({ where: { name } }) taking the group that is renamed for another one
otherAccessGroupsIncludingSelf(accessGroupId, name) == AccessGroup_findByName(name)

\* AccessGroup.findOne({ where: { name, id: { [Op.ne]: accessGroupId } } })
otherAccessGroups(accessGroupId, name) ==
    { g \in AccessGroup_findByName(name) : g.id # accessGroupId }

\* AccessGroup.update({ name }, { where: { id: accessGroupId } })
AccessGroup_update(accessGroupId, name) ==
    { IF g.id = accessGroupId THEN [g EXCEPT !.name = name] ELSE g : g \in AccessGroup }

\* AccessControl.updateAccessGroup(accessGroupId, { name }) with a non-empty name:
\* on success clears the cache of the members
updateAccessGroup(accessGroupId, name) ==
    LET args == <<accessGroupId, name>>
        trimmedName == trim(name)
    IN /\ IF AccessGroup_findByPk(accessGroupId) = {}
          THEN /\ last' = Call("updateAccessGroup", args, FALSE, GenericError)
               /\ UNCHANGED <<AccessGroup, cacheEngine>>
          ELSE IF otherAccessGroups(accessGroupId, trimmedName) # {}
          THEN /\ last' = Call("updateAccessGroup", args, FALSE,
                               DuplicateAccessGroupNameError(trimmedName))
               /\ UNCHANGED <<AccessGroup, cacheEngine>>
          ELSE /\ AccessGroup' = AccessGroup_update(accessGroupId, trimmedName)
               /\ cacheEngine' = clearUserCache(cacheEngine, getUsersInAccessGroup(accessGroupId))
               /\ last' = Call("updateAccessGroup", args, TRUE, accessGroupId)
       /\ UNCHANGED <<nextAccessGroupId, AccessGroupPermission, AccessGroupUser,
                      ResourceLevelPermissionType, nextResourceTypeId, ResourceLevelPermission,
                      cache, createdPermission, pending>>

\* the id Permission.create gives the new row
nextPermissionId == Cardinality(Permission_findAll) + 1

\* AccessControl.createPermission -> AccessGroupsManager.createPermission;
\* permission is [code, name], "" standing for a missing field
createPermission(permission) ==
    LET trimmedCode == trim(permission.code)
    IN /\ IF permission.code = "" \/ permission.name = ""
          THEN /\ last' = Call("createPermission", <<permission>>, FALSE, GenericError)
               /\ UNCHANGED createdPermission
          ELSE IF Permission_findByCode(trimmedCode) # {}
          THEN /\ last' = Call("createPermission", <<permission>>, FALSE,
                               DuplicatePermissionCodeError(trimmedCode))
               /\ UNCHANGED createdPermission
          ELSE /\ Cardinality(createdPermission) < MaxCreatedPermissions
               /\ createdPermission' = createdPermission \cup
                      { [id |-> nextPermissionId, code |-> trimmedCode] }
               /\ last' = Call("createPermission", <<permission>>, TRUE, nextPermissionId)
       /\ UNCHANGED <<storeVars, cache, cacheEngine, pending>>

\* the guard of the deletion without the count of the resource-level permissions
deleteAccessGroupBlockedByLinks(accessGroupId) ==
    \/ \E u \in User : <<accessGroupId, u>> \in AccessGroupUser
    \/ \E p \in PermissionIds : <<accessGroupId, p>> \in AccessGroupPermission

\* AccessGroupsManager.deleteAccessGroup: the three counts that forbid the deletion
deleteAccessGroupBlocked(accessGroupId) ==
    \/ \E u \in User : <<accessGroupId, u>> \in AccessGroupUser
    \/ \E p \in PermissionIds : <<accessGroupId, p>> \in AccessGroupPermission
    \/ \E r \in ResourceLevelPermission : r.access_group_id = accessGroupId

\* AccessControl.deleteAccessGroup: clears the members' caches, then deletes
deleteAccessGroup(accessGroupId) ==
    /\ cacheEngine' = clearUserCache(cacheEngine, getUsersInAccessGroup(accessGroupId))
    /\ IF AccessGroup_findByPk(accessGroupId) = {} \/ deleteAccessGroupBlocked(accessGroupId)
       THEN /\ last' = Call("deleteAccessGroup", <<accessGroupId>>, FALSE, "Error")
            /\ UNCHANGED AccessGroup
       ELSE /\ AccessGroup' = AccessGroup \ AccessGroup_findByPk(accessGroupId)
            /\ last' = Call("deleteAccessGroup", <<accessGroupId>>, TRUE, TRUE)
    /\ UNCHANGED <<nextAccessGroupId, AccessGroupPermission, AccessGroupUser,
                   ResourceLevelPermissionType, nextResourceTypeId, ResourceLevelPermission, cache, createdPermission, pending>>

\* assignPermissionToAccessGroup raising an error for a link that exists already
assignPermissionOnce(accessGroupId, permissionId) ==
    /\ IF \/ AccessGroup_findByPk(accessGroupId) = {} \/ Permission_findByPk(permissionId) = {}
          \/ <<accessGroupId, permissionId>> \in AccessGroupPermission
       THEN /\ last' = Call("assignPermissionToAccessGroup", <<accessGroupId, permissionId>>, FALSE, "Error")
            /\ UNCHANGED AccessGroupPermission
       ELSE /\ AccessGroupPermission' = AccessGroupPermission \cup { <<accessGroupId, permissionId>> }
            /\ last' = Call("assignPermissionToAccessGroup", <<accessGroupId, permissionId>>, TRUE,
                            <<accessGroupId, permissionId>>)
    /\ UNCHANGED <<AccessGroup, nextAccessGroupId, AccessGroupUser, ResourceLevelPermissionType,
                   nextResourceTypeId, ResourceLevelPermission, cache, cacheEngine,
                   createdPermission, pending>>

\* AccessControl.assignPermissionToAccessGroup: no cache is touched
assignPermissionToAccessGroup(accessGroupId, permissionId) ==
    /\ IF AccessGroup_findByPk(accessGroupId) = {} \/ Permission_findByPk(permissionId) = {}
       THEN /\ last' = Call("assignPermissionToAccessGroup", <<accessGroupId, permissionId>>, FALSE, "Error")
            /\ UNCHANGED AccessGroupPermission
       ELSE /\ AccessGroupPermission' = AccessGroupPermission \cup { <<accessGroupId, permissionId>> }
            /\ last' = Call("assignPermissionToAccessGroup", <<accessGroupId, permissionId>>, TRUE,
                            <<accessGroupId, permissionId>>)
    /\ UNCHANGED <<AccessGroup, nextAccessGroupId, AccessGroupUser, ResourceLevelPermissionType,
                   nextResourceTypeId, ResourceLevelPermission, cache, cacheEngine,
                   createdPermission, pending>>

\* AccessControl.removePermissionFromAccessGroup: destroys the link, then clears the
\* cache of the users getUsersInAccessGroup finds
removePermissionFromAccessGroup(accessGroupId, permissionId) ==
    /\ AccessGroupPermission' = AccessGroupPermission \ { <<accessGroupId, permissionId>> }
    /\ cacheEngine' = clearUserCache(cacheEngine, getUsersInAccessGroup(accessGroupId))
    /\ last' = Call("removePermissionFromAccessGroup", <<accessGroupId, permissionId>>, TRUE,
                    <<accessGroupId, permissionId>> \in AccessGroupPermission)
    /\ UNCHANGED <<AccessGroup, nextAccessGroupId, AccessGroupUser, ResourceLevelPermissionType,
                   nextResourceTypeId, ResourceLevelPermission, cache, createdPermission, pending>>

\* AccessControl.addUserToAccessGroup: no cache is touched
addUserToAccessGroup(accessGroupId, userId) ==
    /\ IF AccessGroup_findByPk(accessGroupId) = {}
       THEN /\ last' = Call("addUserToAccessGroup", <<accessGroupId, userId>>, FALSE, "Error")
            /\ UNCHANGED AccessGroupUser
       ELSE /\ AccessGroupUser' = AccessGroupUser \cup { <<accessGroupId, userId>> }
            /\ last' = Call("addUserToAccessGroup", <<accessGroupId, userId>>, TRUE,
                            <<accessGroupId, userId>>)
    /\ UNCHANGED <<AccessGroup, nextAccessGroupId, AccessGroupPermission, ResourceLevelPermissionType,
                   nextResourceTypeId, ResourceLevelPermission, cache, cacheEngine,
                   createdPermission, pending>>

\* AccessControl.removeUserFromAccessGroup: no cache is touched
removeUserFromAccessGroup(accessGroupId, userId) ==
    /\ AccessGroupUser' = AccessGroupUser \ { <<accessGroupId, userId>> }
    /\ last' = Call("removeUserFromAccessGroup", <<accessGroupId, userId>>, TRUE,
                    <<accessGroupId, userId>> \in AccessGroupUser)
    /\ UNCHANGED <<AccessGroup, nextAccessGroupId, AccessGroupPermission, ResourceLevelPermissionType,
                   nextResourceTypeId, ResourceLevelPermission, cache, cacheEngine,
                   createdPermission, pending>>


(***************************************************************************)
(* The bulk operations: one transaction of AccessGroupsManager.            *)
(* A transaction works on a copy tx of the tables; commit installs it,     *)
(* rollback drops it.                                                      *)
(***************************************************************************)
Tx == [ ok |-> TRUE,
        AccessGroup |-> AccessGroup,
        AccessGroupUser |-> AccessGroupUser,
        AccessGroupPermission |-> AccessGroupPermission,
        ResourceLevelPermissionType |-> ResourceLevelPermissionType,
        nextResourceTypeId |-> nextResourceTypeId,
        ResourceLevelPermission |-> ResourceLevelPermission,
        error |-> GenericError,
        users_added |-> 0, permissions_added |-> 0, resource_permissions_added |-> 0 ]

throw(tx) == [tx EXCEPT !.ok = FALSE]

\* throw new DuplicateAccessGroupNameError(trimmedName)
throwDuplicate(tx, trimmedName) ==
    [tx EXCEPT !.ok = FALSE, !.error = DuplicateAccessGroupNameError(trimmedName)]

\* where a query of the store throws during a bulk call: not at all, at the first
\* query of the loop of Step 2 or of Step 3, at transaction.commit(), or at the
\* findByPk that follows the commit of the update
StoreFailures == { "none", "step2", "step3", "commit", "afterCommit" }

\* ResourceLevelPermissionType.findOne({ where: { permission_id, name } }) inside tx
txResourceType(tx, permission_id, resource_name) ==
    { t \in tx.ResourceLevelPermissionType :
        t.permission_id = permission_id /\ t.name = resource_name }

Grant(permission_id, resource_id, resource_type_id, access_group_id) ==
    [ permission_id |-> permission_id, resource_id |-> resource_id,
      resource_type_id |-> resource_type_id, access_group_id |-> access_group_id ]

\* "Step 2": for (const userId of user_ids)
RECURSIVE txAddUsers(_, _, _)
txAddUsers(tx, accessGroupId, user_ids) ==
    IF ~tx.ok \/ user_ids = << >> THEN tx
    ELSE LET userId == Head(user_ids)
         IN IF userId \notin User
            THEN throw(tx)
            ELSE txAddUsers(
                   [tx EXCEPT !.AccessGroupUser = @ \cup { <<accessGroupId, userId>> },
                              !.users_added = IF <<accessGroupId, userId>> \in tx.AccessGroupUser
                                              THEN @ ELSE @ + 1],
                   accessGroupId, Tail(user_ids))

\* for (const resource_id of resource_ids)
RECURSIVE txAddGrants(_, _, _, _, _)
txAddGrants(tx, accessGroupId, permission_id, resource_type_id, resource_ids) ==
    IF resource_ids = << >> THEN tx
    ELSE LET row == Grant(permission_id, Head(resource_ids), resource_type_id, accessGroupId)
         IN txAddGrants(
              [tx EXCEPT !.ResourceLevelPermission = @ \cup { row },
                         !.resource_permissions_added =
                              IF row \in tx.ResourceLevelPermission THEN @ ELSE @ + 1],
              accessGroupId, permission_id, resource_type_id, Tail(resource_ids))

\* for (const [resource_name, resource_ids] of Object.entries(resource_level_permissions));
\* an entry is [resource_name, isArray, resource_ids]
RECURSIVE txAddResourceLevel(_, _, _, _)
txAddResourceLevel(tx, accessGroupId, permission_id, entries) ==
    IF ~tx.ok \/ entries = << >> THEN tx
    ELSE LET e == Head(entries)
             found == txResourceType(tx, permission_id, e.resource_name)
             typed == IF found # {} THEN tx
                      ELSE [tx EXCEPT !.ResourceLevelPermissionType = @ \cup
                                         { [ id |-> tx.nextResourceTypeId,
                                             permission_id |-> permission_id,
                                             name |-> e.resource_name ] },
                                      !.nextResourceTypeId = @ + 1]
             resourceType == CHOOSE t \in txResourceType(typed, permission_id, e.resource_name) : TRUE
         IN IF ~e.isArray
            THEN throw(tx)
            ELSE txAddResourceLevel(
                   txAddGrants(typed, accessGroupId, permission_id, resourceType.id, e.resource_ids),
                   accessGroupId, permission_id, Tail(entries))

\* "Step 3": for (const permissionData of permissions);
\* permissionData is [permission_id, resource_level_permissions], permission_id 0 is a missing one
RECURSIVE txAddPermissions(_, _, _)
txAddPermissions(tx, accessGroupId, permissions) ==
    IF ~tx.ok \/ permissions = << >> THEN tx
    ELSE LET permissionData == Head(permissions)
             permission_id == permissionData.permission_id
             linked == [tx EXCEPT !.AccessGroupPermission = @ \cup { <<accessGroupId, permission_id>> },
                                  !.permissions_added =
                                       IF <<accessGroupId, permission_id>> \in tx.AccessGroupPermission
                                       THEN @ ELSE @ + 1]
         IN IF permission_id = 0 \/ Permission_findByPk(permission_id) = {}
            THEN throw(tx)
            ELSE txAddPermissions(
                   txAddResourceLevel(linked, accessGroupId, permission_id,
                                      permissionData.resource_level_permissions),
                   accessGroupId, Tail(permissions))

\* AccessGroupsManager.createAccessGroupWithAssignments from Step 1 up to
\* transaction.commit(), once findOne has found no group of that name
managerCreateAfterFindOne(accessGroupData, storeFails) ==
    LET trimmedName == trim(accessGroupData.name)
        id == nextAccessGroupId
        created == [Tx EXCEPT !.AccessGroup = @ \cup { [id |-> id, name |-> trimmedName] }]
        users == IF storeFails = "step2" /\ accessGroupData.user_ids # << >>
                 THEN throw(created)
                 ELSE txAddUsers(created, id, accessGroupData.user_ids)
        permissions == IF ~users.ok THEN users
                       ELSE IF storeFails = "step3" /\ accessGroupData.permissions # << >>
                       THEN throw(users)
                       ELSE txAddPermissions(users, id, accessGroupData.permissions)
    IN IF storeFails = "commit" THEN throw(permissions) ELSE permissions

\* AccessGroupsManager.createAccessGroupWithAssignments up to transaction.commit();
\* accessGroupData is [name, user_ids, permissions]
managerCreateWithAssignments(accessGroupData, storeFails) ==
    LET trimmedName == trim(accessGroupData.name)
    IN IF accessGroupData.name = ""
       THEN throw(Tx)
       ELSE IF AccessGroup_findByName(trimmedName) # {}
       THEN throwDuplicate(Tx, trimmedName)
       ELSE managerCreateAfterFindOne(accessGroupData, storeFails)

\* AccessGroupUser.destroy({ where: { access_group_id }, transaction }) without effect
destroyNoUserLinks(tx, accessGroupId) == tx

\* AccessGroupUser.destroy({ where: { access_group_id }, transaction })
destroyUserLinks(tx, accessGroupId) ==
    [tx EXCEPT !.AccessGroupUser = { l \in @ : l[1] # accessGroupId }]

\* the replace mode taken whatever replace_assignments says
replaceModeAlways(updateData) == TRUE

\* const { ..., replace_assignments = true } = updateData; if (replace_assignments)
replaceMode(updateData) == updateData.replace_assignments

\* AccessGroupsManager.updateAccessGroupWithAssignments from Step 1 up to
\* transaction.commit(), once the group is found and no other group has the name
managerUpdateAfterFindOne(accessGroupId, updateData, storeFails) ==
    LET trimmedName == trim(updateData.name.value)
        renamed == IF updateData.name.defined
                   THEN [Tx EXCEPT !.AccessGroup =
                            { IF g.id = accessGroupId THEN [g EXCEPT !.name = trimmedName] ELSE g : g \in @ }]
                   ELSE Tx
        unlinkedUsers == IF updateData.user_ids.defined /\ replaceMode(updateData)
                         THEN destroyUserLinks(renamed, accessGroupId)
                         ELSE renamed
        users == IF ~updateData.user_ids.defined THEN renamed
                 ELSE IF storeFails = "step2" /\ updateData.user_ids.value # << >>
                 THEN throw(unlinkedUsers)
                 ELSE txAddUsers(unlinkedUsers, accessGroupId, updateData.user_ids.value)
        unlinkedPermissions ==
                 IF updateData.permissions.defined /\ replaceMode(updateData)
                 THEN [users EXCEPT !.ResourceLevelPermission =
                                        { r \in @ : r.access_group_id # accessGroupId },
                                    !.AccessGroupPermission =
                                        { l \in @ : l[1] # accessGroupId }]
                 ELSE users
    IN IF ~users.ok
       THEN users
       ELSE LET permissions ==
                  IF ~updateData.permissions.defined THEN users
                  ELSE IF storeFails = "step3" /\ updateData.permissions.value # << >>
                  THEN throw(unlinkedPermissions)
                  ELSE txAddPermissions(unlinkedPermissions, accessGroupId,
                                        updateData.permissions.value)
            IN IF storeFails = "commit" THEN throw(permissions) ELSE permissions

\* AccessGroupsManager.updateAccessGroupWithAssignments up to transaction.commit();
\* updateData is [name, user_ids, permissions, replace_assignments], where name,
\* user_ids and permissions are [defined, value]
managerUpdateWithAssignments(accessGroupId, updateData, storeFails) ==
    LET trimmedName == trim(updateData.name.value)
    IN IF AccessGroup_findByPk(accessGroupId) = {}
       THEN throw(Tx)
       ELSE IF updateData.name.defined /\ otherAccessGroups(accessGroupId, trimmedName) # {}
       THEN throwDuplicate(Tx, trimmedName)
       ELSE managerUpdateAfterFindOne(accessGroupId, updateData, storeFails)

\* the tables of tx installed whether or not an error was thrown (no rollback)
finishTxWithoutRollback(tx) ==
    /\ AccessGroup' = tx.AccessGroup
    /\ AccessGroupUser' = tx.AccessGroupUser
    /\ AccessGroupPermission' = tx.AccessGroupPermission
    /\ ResourceLevelPermissionType' = tx.ResourceLevelPermissionType
    /\ nextResourceTypeId' = tx.nextResourceTypeId
    /\ ResourceLevelPermission' = tx.ResourceLevelPermission

\* transaction.commit() (tx.ok) or transaction.rollback()
finishTx(tx) ==
    IF tx.ok
    THEN /\ AccessGroup' = tx.AccessGroup
         /\ AccessGroupUser' = tx.AccessGroupUser
         /\ AccessGroupPermission' = tx.AccessGroupPermission
         /\ ResourceLevelPermissionType' = tx.ResourceLevelPermissionType
         /\ nextResourceTypeId' = tx.nextResourceTypeId
         /\ ResourceLevelPermission' = tx.ResourceLevelPermission
    ELSE UNCHANGED <<AccessGroup, AccessGroupUser, AccessGroupPermission,
                     ResourceLevelPermissionType, nextResourceTypeId, ResourceLevelPermission>>

Summary(tx) ==
    IF tx.ok
    THEN [ users_added |-> tx.users_added, permissions_added |-> tx.permissions_added,
           resource_permissions_added |-> tx.resource_permissions_added ]
    ELSE tx.error

Range(seq) == { seq[i] : i \in 1 .. Len(seq) }

\* AccessControl.createAccessGroupWithAssignments: on success clears the cache of
\* accessGroupData.user_ids
createAccessGroupWithAssignments(accessGroupData, storeFails) ==
    LET tx == managerCreateWithAssignments(accessGroupData, storeFails)
    IN /\ nextAccessGroupId <= MaxAccessGroups
       /\ tx.nextResourceTypeId <= MaxResourceTypes + 1
       /\ finishTx(tx)
       /\ nextAccessGroupId' = IF tx.ok THEN nextAccessGroupId + 1 ELSE nextAccessGroupId
       /\ cacheEngine' = IF tx.ok
                         THEN clearUserCache(cacheEngine, Range(accessGroupData.user_ids))
                         ELSE cacheEngine
       /\ last' = Call("createAccessGroupWithAssignments", <<accessGroupData>>, tx.ok, Summary(tx))
       /\ UNCHANGED <<cache, createdPermission, pending>>

\* updateAccessGroupWithAssignments reading the members after the update
updateReadingMembersAfter(accessGroupId, updateData, storeFails) ==
    LET tx == managerUpdateWithAssignments(accessGroupId, updateData, storeFails)
        existingUsers == { u \in User : <<accessGroupId, u>> \in tx.AccessGroupUser }
        returned == tx.ok /\ storeFails # "afterCommit"
    IN /\ tx.nextResourceTypeId <= MaxResourceTypes + 1
       /\ finishTx(tx)
       /\ cacheEngine' = IF returned
                         THEN clearUserCache(cacheEngine,
                                  existingUsers \cup
                                  (IF updateData.user_ids.defined
                                   THEN Range(updateData.user_ids.value) ELSE {}))
                         ELSE cacheEngine
       /\ last' = Call("updateAccessGroupWithAssignments", <<accessGroupId, updateData>>,
                       returned,
                       IF returned THEN Summary(tx) ELSE IF tx.ok THEN GenericError ELSE tx.error)
       /\ UNCHANGED <<nextAccessGroupId, cache, createdPermission, pending>>

\* AccessControl.updateAccessGroupWithAssignments: reads the members before the update,
\* and on success clears their cache and that of updateData.user_ids. The manager
\* reads the group again after the commit (AccessGroup.findByPk outside the
\* transaction); when that throws, the call raises an error with the transaction
\* already committed (transaction.rollback() in the catch cannot undo it)
updateAccessGroupWithAssignments(accessGroupId, updateData, storeFails) ==
    LET existingUsers == getUsersInAccessGroup(accessGroupId)
        tx == managerUpdateWithAssignments(accessGroupId, updateData, storeFails)
        returned == tx.ok /\ storeFails # "afterCommit"
    IN /\ tx.nextResourceTypeId <= MaxResourceTypes + 1
       /\ finishTx(tx)
       /\ cacheEngine' = IF returned
                         THEN clearUserCache(cacheEngine,
                                  existingUsers \cup
                                  (IF updateData.user_ids.defined
                                   THEN Range(updateData.user_ids.value) ELSE {}))
                         ELSE cacheEngine
       /\ last' = Call("updateAccessGroupWithAssignments", <<accessGroupId, updateData>>,
                       returned,
                       IF returned THEN Summary(tx) ELSE IF tx.ok THEN GenericError ELSE tx.error)
       /\ UNCHANGED <<nextAccessGroupId, cache, createdPermission, pending>>


(***************************************************************************)
(* Calls in flight together.  Every await gives the event loop to the      *)
(* other callers; a creation or a rename is taken here in two steps, the   *)
(* first up to the await of its findOne, the second from the write on.     *)
(* No table of the store has a unique index on name or code, and a         *)
(* transaction does not see the rows another one has not committed.        *)
(***************************************************************************)
\* the caller is suspended with call
suspend(caller, call) ==
    /\ pending[caller] = Idle
    /\ pending' = [pending EXCEPT ![caller] = call]

\* the call of the caller has returned
done(caller) == pending' = [pending EXCEPT ![caller] = Idle]

\* createAccessGroup up to the result of findOne (lines 58-71)
createAccessGroup_findOne(caller, name) ==
    /\ pending[caller] = Idle
    /\ IF AccessGroup_findByName(trim(name)) # {}
       THEN /\ last' = Call("createAccessGroup", <<name>>, FALSE,
                            DuplicateAccessGroupNameError(trim(name)))
            /\ UNCHANGED pending
       ELSE /\ suspend(caller, [op |-> "createAccessGroup", name |-> name])
            /\ UNCHANGED last
    /\ UNCHANGED <<storeVars, cache, cacheEngine, createdPermission>>

\* createAccessGroup from AccessGroup.create on (lines 73-78)
createAccessGroup_create(caller) ==
    /\ pending[caller].op = "createAccessGroup"
    /\ nextAccessGroupId <= MaxAccessGroups
    /\ AccessGroup' = AccessGroup \cup
          { [id |-> nextAccessGroupId, name |-> trim(pending[caller].name)] }
    /\ nextAccessGroupId' = nextAccessGroupId + 1
    /\ last' = Call("createAccessGroup", <<pending[caller].name>>, TRUE, nextAccessGroupId)
    /\ done(caller)
    /\ UNCHANGED <<AccessGroupPermission, AccessGroupUser, ResourceLevelPermissionType,
                   nextResourceTypeId, ResourceLevelPermission, cache, cacheEngine,
                   createdPermission>>

\* updateAccessGroup up to the result of findOne (lines 96-138)
updateAccessGroup_findOne(caller, accessGroupId, name) ==
    /\ pending[caller] = Idle
    /\ IF AccessGroup_findByPk(accessGroupId) = {}
       THEN /\ last' = Call("updateAccessGroup", <<accessGroupId, name>>, FALSE, GenericError)
            /\ UNCHANGED pending
       ELSE IF otherAccessGroups(accessGroupId, trim(name)) # {}
       THEN /\ last' = Call("updateAccessGroup", <<accessGroupId, name>>, FALSE,
                            DuplicateAccessGroupNameError(trim(name)))
            /\ UNCHANGED pending
       ELSE /\ suspend(caller, [op |-> "updateAccessGroup",
                                accessGroupId |-> accessGroupId, name |-> name])
            /\ UNCHANGED last
    /\ UNCHANGED <<storeVars, cache, cacheEngine, createdPermission>>

\* updateAccessGroup from AccessGroup.update on (lines 140-155), and the facade's
\* clearing of the members' cache
updateAccessGroup_update(caller) ==
    LET call == pending[caller]
    IN /\ call.op = "updateAccessGroup"
       /\ IF AccessGroup_findByPk(call.accessGroupId) = {}
          THEN /\ last' = Call("updateAccessGroup", <<call.accessGroupId, call.name>>, FALSE,
                               GenericError)
               /\ UNCHANGED <<AccessGroup, cacheEngine>>
          ELSE /\ AccessGroup' = AccessGroup_update(call.accessGroupId, trim(call.name))
               /\ cacheEngine' = clearUserCache(cacheEngine,
                                                getUsersInAccessGroup(call.accessGroupId))
               /\ last' = Call("updateAccessGroup", <<call.accessGroupId, call.name>>, TRUE,
                               call.accessGroupId)
       /\ done(caller)
       /\ UNCHANGED <<nextAccessGroupId, AccessGroupPermission, AccessGroupUser,
                      ResourceLevelPermissionType, nextResourceTypeId, ResourceLevelPermission,
                      cache, createdPermission>>

\* createPermission up to the result of findOne (lines 278-295)
createPermission_findOne(caller, permission) ==
    /\ pending[caller] = Idle
    /\ IF permission.code = "" \/ permission.name = ""
       THEN /\ last' = Call("createPermission", <<permission>>, FALSE, GenericError)
            /\ UNCHANGED pending
       ELSE IF Permission_findByCode(trim(permission.code)) # {}
       THEN /\ last' = Call("createPermission", <<permission>>, FALSE,
                            DuplicatePermissionCodeError(trim(permission.code)))
            /\ UNCHANGED pending
       ELSE /\ suspend(caller, [op |-> "createPermission", permission |-> permission])
            /\ UNCHANGED last
    /\ UNCHANGED <<storeVars, cache, cacheEngine, createdPermission>>

\* createPermission from Permission.create on (lines 297-303)
createPermission_create(caller) ==
    /\ pending[caller].op = "createPermission"
    /\ Cardinality(createdPermission) < MaxCreatedPermissions
    /\ createdPermission' = createdPermission \cup
          { [id |-> nextPermissionId, code |-> trim(pending[caller].permission.code)] }
    /\ last' = Call("createPermission", <<pending[caller].permission>>, TRUE, nextPermissionId)
    /\ done(caller)
    /\ UNCHANGED <<storeVars, cache, cacheEngine>>

\* createAccessGroupWithAssignments up to the result of findOne (lines 572-600)
createAccessGroupWithAssignments_findOne(caller, accessGroupData) ==
    /\ pending[caller] = Idle
    /\ IF accessGroupData.name = ""
       THEN /\ last' = Call("createAccessGroupWithAssignments", <<accessGroupData>>, FALSE,
                            GenericError)
            /\ UNCHANGED pending
       ELSE IF AccessGroup_findByName(trim(accessGroupData.name)) # {}
       THEN /\ last' = Call("createAccessGroupWithAssignments", <<accessGroupData>>, FALSE,
                            DuplicateAccessGroupNameError(trim(accessGroupData.name)))
            /\ UNCHANGED pending
       ELSE /\ suspend(caller, [op |-> "createAccessGroupWithAssignments",
                                accessGroupData |-> accessGroupData])
            /\ UNCHANGED last
    /\ UNCHANGED <<storeVars, cache, cacheEngine, createdPermission>>

\* createAccessGroupWithAssignments from Step 1 on: the writes of the transaction
\* reach the store at transaction.commit() (lines 602-737), then the facade clears
\* the cache of user_ids
createAccessGroupWithAssignments_commit(caller) ==
    LET accessGroupData == pending[caller].accessGroupData
        tx == managerCreateAfterFindOne(accessGroupData, "none")
    IN /\ pending[caller].op = "createAccessGroupWithAssignments"
       /\ nextAccessGroupId <= MaxAccessGroups
       /\ tx.nextResourceTypeId <= MaxResourceTypes + 1
       /\ finishTx(tx)
       /\ nextAccessGroupId' = IF tx.ok THEN nextAccessGroupId + 1 ELSE nextAccessGroupId
       /\ cacheEngine' = IF tx.ok
                         THEN clearUserCache(cacheEngine, Range(accessGroupData.user_ids))
                         ELSE cacheEngine
       /\ last' = Call("createAccessGroupWithAssignments", <<accessGroupData>>, tx.ok, Summary(tx))
       /\ done(caller)
       /\ UNCHANGED <<cache, createdPermission>>

\* updateAccessGroupWithAssignments up to the result of findOne (lines 765-800)
updateAccessGroupWithAssignments_findOne(caller, accessGroupId, updateData) ==
    LET args == <<accessGroupId, updateData>>
        trimmedName == trim(updateData.name.value)
    IN /\ pending[caller] = Idle
       /\ IF AccessGroup_findByPk(accessGroupId) = {}
          THEN /\ last' = Call("updateAccessGroupWithAssignments", args, FALSE, GenericError)
               /\ UNCHANGED pending
          ELSE IF updateData.name.defined /\ otherAccessGroups(accessGroupId, trimmedName) # {}
          THEN /\ last' = Call("updateAccessGroupWithAssignments", args, FALSE,
                               DuplicateAccessGroupNameError(trimmedName))
               /\ UNCHANGED pending
          ELSE /\ suspend(caller, [op |-> "updateAccessGroupWithAssignments",
                                   accessGroupId |-> accessGroupId, updateData |-> updateData,
                                   existingUsers |-> getUsersInAccessGroup(accessGroupId)])
               /\ UNCHANGED last
       /\ UNCHANGED <<storeVars, cache, cacheEngine, createdPermission>>

\* updateAccessGroupWithAssignments from Step 1 on: the writes of the transaction
\* reach the store at transaction.commit() (lines 802-988), then the facade clears
\* the caches
updateAccessGroupWithAssignments_commit(caller) ==
    LET call == pending[caller]
        tx == managerUpdateAfterFindOne(call.accessGroupId, call.updateData, "none")
    IN /\ call.op = "updateAccessGroupWithAssignments"
       /\ tx.nextResourceTypeId <= MaxResourceTypes + 1
       /\ finishTx(tx)
       /\ cacheEngine' = IF tx.ok
                         THEN clearUserCache(cacheEngine,
                                  call.existingUsers \cup
                                  (IF call.updateData.user_ids.defined
                                   THEN Range(call.updateData.user_ids.value) ELSE {}))
                         ELSE cacheEngine
       /\ last' = Call("updateAccessGroupWithAssignments",
                       <<call.accessGroupId, call.updateData>>, tx.ok, Summary(tx))
       /\ done(caller)
       /\ UNCHANGED <<nextAccessGroupId, cache, createdPermission>>

\* setupInitialData, started by the constructor without being awaited, up to the
\* result of AccessGroup.findOne({ where: { name: 'Super Admin' } }) (dbValidation.js
\* 42-76); when the group is there, the rest of the function (85-101) as well
setupInitialData_findOne(caller) ==
    LET superAdminPermission == CHOOSE p \in Permission_findByCode("super_admin") : TRUE
    IN /\ pending[caller] = Idle
       /\ Permission_findByCode("super_admin") # {}
       /\ IF AccessGroup_findByName(SuperAdminGroupName) = {}
          THEN /\ suspend(caller, [op |-> "setupInitialData",
                                   permission_id |-> superAdminPermission.id])
               /\ UNCHANGED <<AccessGroupPermission, last>>
          ELSE \E superAdminGroup \in AccessGroup_findByName(SuperAdminGroupName) :
                 /\ AccessGroupPermission' = AccessGroupPermission \cup
                        { <<superAdminGroup.id, superAdminPermission.id>> }
                 /\ last' = Call("setupInitialData", << >>, TRUE, superAdminGroup.id)
                 /\ UNCHANGED pending
       /\ UNCHANGED <<AccessGroup, nextAccessGroupId, AccessGroupUser,
                      ResourceLevelPermissionType, nextResourceTypeId, ResourceLevelPermission,
                      cache, cacheEngine, createdPermission>>

\* setupInitialData from AccessGroup.create on (dbValidation.js 78-101)
setupInitialData_create(caller) ==
    /\ pending[caller].op = "setupInitialData"
    /\ nextAccessGroupId <= MaxAccessGroups
    /\ AccessGroup' = AccessGroup \cup
          { [id |-> nextAccessGroupId, name |-> SuperAdminGroupName] }
    /\ nextAccessGroupId' = nextAccessGroupId + 1
    /\ AccessGroupPermission' = AccessGroupPermission \cup
          { <<nextAccessGroupId, pending[caller].permission_id>> }
    /\ last' = Call("setupInitialData", << >>, TRUE, nextAccessGroupId)
    /\ done(caller)
    /\ UNCHANGED <<AccessGroupUser, ResourceLevelPermissionType, nextResourceTypeId,
                   ResourceLevelPermission, cache, cacheEngine, createdPermission>>

\* AccessControl.getUserPermissions up to the await of the manager's query (index.js
\* 105-118): a cached array is returned at once, otherwise the rows of the store are
\* read and the caller is suspended with them
getUserPermissions_fetch(caller, userId) ==
    /\ pending[caller] = Idle
    /\ IF cache = "in-memory" /\ cache_has(cacheEngine, userPermissionsKey(userId))
       THEN /\ last' = Call("getUserPermissions", <<userId>>, TRUE,
                            cacheEngine[userPermissionsKey(userId)])
            /\ UNCHANGED pending
       ELSE /\ suspend(caller, [op |-> "getUserPermissions", userId |-> userId,
                                permissions |-> AccessGroupsManager_getUserPermissions(userId)])
            /\ UNCHANGED last
    /\ UNCHANGED <<storeVars, cache, cacheEngine, createdPermission>>

\* AccessControl.getUserPermissions from the result of the query on (index.js 120-126):
\* the array that was read is put in the cache and returned
getUserPermissions_set(caller) ==
    LET call == pending[caller]
    IN /\ call.op = "getUserPermissions"
       /\ cacheEngine' = IF cache = "in-memory"
                         THEN cache_set(cacheEngine, userPermissionsKey(call.userId),
                                        call.permissions)
                         ELSE cacheEngine
       /\ last' = Call("getUserPermissions", <<call.userId>>, TRUE, call.permissions)
       /\ done(caller)
       /\ UNCHANGED <<storeVars, cache, createdPermission>>

\* AccessControl.removePermissionFromAccessGroup up to the result of the manager's
\* destroy (index.js 299)
removePermissionFromAccessGroup_destroy(caller, accessGroupId, permissionId) ==
    /\ AccessGroupPermission' = AccessGroupPermission \ { <<accessGroupId, permissionId>> }
    /\ suspend(caller, [op |-> "removePermissionFromAccessGroup",
                        accessGroupId |-> accessGroupId, permissionId |-> permissionId,
                        removed |-> <<accessGroupId, permissionId>> \in AccessGroupPermission])
    /\ UNCHANGED <<AccessGroup, nextAccessGroupId, AccessGroupUser, ResourceLevelPermissionType,
                   nextResourceTypeId, ResourceLevelPermission, cache, cacheEngine,
                   createdPermission, last>>

\* AccessControl.removePermissionFromAccessGroup from the result of
\* getUsersInAccessGroup on (index.js 306-311): the users that are members now lose
\* their cache entry
removePermissionFromAccessGroup_clear(caller) ==
    LET call == pending[caller]
    IN /\ call.op = "removePermissionFromAccessGroup"
       /\ cacheEngine' = clearUserCache(cacheEngine, getUsersInAccessGroup(call.accessGroupId))
       /\ last' = Call("removePermissionFromAccessGroup",
                       <<call.accessGroupId, call.permissionId>>, TRUE, call.removed)
       /\ done(caller)
       /\ UNCHANGED <<storeVars, cache, createdPermission>>

\* AccessControl.deleteAccessGroup up to the result of the last count (part_002
\* 177-210): the members' caches are cleared, the group is looked up and its links
\* and grants are counted
deleteAccessGroup_count(caller, accessGroupId) ==
    /\ pending[caller] = Idle
    /\ cacheEngine' = clearUserCache(cacheEngine, getUsersInAccessGroup(accessGroupId))
    /\ IF AccessGroup_findByPk(accessGroupId) = {} \/ deleteAccessGroupBlocked(accessGroupId)
       THEN /\ last' = Call("deleteAccessGroup", <<accessGroupId>>, FALSE, "Error")
            /\ UNCHANGED pending
       ELSE /\ suspend(caller, [op |-> "deleteAccessGroup", accessGroupId |-> accessGroupId])
            /\ UNCHANGED last
    /\ UNCHANGED <<storeVars, cache, createdPermission>>

\* AccessControl.deleteAccessGroup from AccessGroup.destroy on (part_002 213-218)
deleteAccessGroup_destroy(caller) ==
    LET call == pending[caller]
    IN /\ call.op = "deleteAccessGroup"
       /\ AccessGroup' = AccessGroup \ AccessGroup_findByPk(call.accessGroupId)
       /\ last' = Call("deleteAccessGroup", <<call.accessGroupId>>, TRUE,
                       AccessGroup_findByPk(call.accessGroupId) # {})
       /\ done(caller)
       /\ UNCHANGED <<nextAccessGroupId, AccessGroupPermission, AccessGroupUser,
                      ResourceLevelPermissionType, nextResourceTypeId, ResourceLevelPermission,
                      cache, cacheEngine, createdPermission>>

\* AccessGroupsManager.createAccessGroupWithAssignments up to its first await:
\* const transaction = await this.db.sequelize.transaction() (part_002 572)
createAccessGroupWithAssignments_transaction(caller, accessGroupData) ==
    /\ suspend(caller, [op |-> "transaction", of |-> "createAccessGroupWithAssignments",
                        accessGroupData |-> accessGroupData])
    /\ UNCHANGED <<storeVars, cache, cacheEngine, createdPermission, last>>

\* createAccessGroupWithAssignments from the try block on (part_002 574-749, index.js
\* 347-366): the checks of the arguments, the queries inside the transaction, the
\* commit or the rollback, and the facade's cache clearing
createAccessGroupWithAssignments_try(caller) ==
    LET call == pending[caller]
        tx == managerCreateWithAssignments(call.accessGroupData, "none")
    IN /\ call.op = "transaction" /\ call.of = "createAccessGroupWithAssignments"
       /\ nextAccessGroupId <= MaxAccessGroups
       /\ tx.nextResourceTypeId <= MaxResourceTypes + 1
       /\ finishTx(tx)
       /\ nextAccessGroupId' = IF tx.ok THEN nextAccessGroupId + 1 ELSE nextAccessGroupId
       /\ cacheEngine' = IF tx.ok
                         THEN clearUserCache(cacheEngine, Range(call.accessGroupData.user_ids))
                         ELSE cacheEngine
       /\ last' = Call("createAccessGroupWithAssignments", <<call.accessGroupData>>, tx.ok,
                       Summary(tx))
       /\ done(caller)
       /\ UNCHANGED <<cache, createdPermission>>

\* AccessControl.updateAccessGroupWithAssignments up to the await of
\* this.db.sequelize.transaction() (index.js 384, part_002 765); with the cache on,
\* the facade has read the members before
updateAccessGroupWithAssignments_transaction(caller, accessGroupId, updateData) ==
    /\ suspend(caller, [op |-> "transaction", of |-> "updateAccessGroupWithAssignments",
                        accessGroupId |-> accessGroupId, updateData |-> updateData,
                        existingUsers |-> IF cache = "in-memory"
                                          THEN getUsersInAccessGroup(accessGroupId) ELSE {}])
    /\ UNCHANGED <<storeVars, cache, cacheEngine, createdPermission, last>>

\* updateAccessGroupWithAssignments from the try block on (part_002 767-1000, index.js
\* 386-409)
updateAccessGroupWithAssignments_try(caller) ==
    LET call == pending[caller]
        tx == managerUpdateWithAssignments(call.accessGroupId, call.updateData, "none")
    IN /\ call.op = "transaction" /\ call.of = "updateAccessGroupWithAssignments"
       /\ tx.nextResourceTypeId <= MaxResourceTypes + 1
       /\ finishTx(tx)
       /\ cacheEngine' = IF tx.ok
                         THEN clearUserCache(cacheEngine,
                                  call.existingUsers \cup
                                  (IF call.updateData.user_ids.defined
                                   THEN Range(call.updateData.user_ids.value) ELSE {}))
                         ELSE cacheEngine
       /\ last' = Call("updateAccessGroupWithAssignments",
                       <<call.accessGroupId, call.updateData>>, tx.ok, Summary(tx))
       /\ done(caller)
       /\ UNCHANGED <<nextAccessGroupId, cache, createdPermission>>

(***************************************************************************)
(* Resource-level permissions (ResourceLevelPermissionsManager and the     *)
(* facade methods around it).                                              *)
(***************************************************************************)
\* the findOne without permission_id in its where
resourceTypeForAnyPermission(permission_id, resource_name) ==
    { t \in ResourceLevelPermissionType : t.name = resource_name }

\* ResourceLevelPermissionType.findOne({ where: { permission_id, name } })
resourceTypeFor(permission_id, resource_name) ==
    { t \in ResourceLevelPermissionType :
        t.permission_id = permission_id /\ t.name = resource_name }

\* ResourceLevelPermissionType.findOne({ where: { name } }): the rows the query
\* may return (no ORDER BY: any row with that name)
resourceTypeByName(resource_name) ==
    { t \in ResourceLevelPermissionType : t.name = resource_name }

\* AccessGroupUser.findAll({ where: { user_id } }) mapped to access_group_id
accessGroupIdsOf(user_id) == { l[1] : l \in { m \in AccessGroupUser : m[2] = user_id } }

\* ResourceLevelPermissionsManager.getResourceLevelPermissions once the resource
\* type row is resourceType
resourceIdsVia(resourceType, permission_id, user_id) ==
    { r.resource_id : r \in { q \in ResourceLevelPermission :
                                /\ q.resource_type_id = resourceType.id
                                /\ q.permission_id = permission_id
                                /\ q.access_group_id \in accessGroupIdsOf(user_id) } }

\* AccessControl.addResourceTypeForPermission: findOrCreate
addResourceTypeForPermission(permission_id, resource_name) ==
    /\ IF Permission_findByPk(permission_id) = {}
       THEN /\ last' = Call("addResourceTypeForPermission", <<permission_id, resource_name>>, FALSE, "Error")
            /\ UNCHANGED <<ResourceLevelPermissionType, nextResourceTypeId>>
       ELSE IF resourceTypeFor(permission_id, resource_name) # {}
       THEN /\ last' = Call("addResourceTypeForPermission", <<permission_id, resource_name>>, TRUE,
                            (CHOOSE t \in resourceTypeFor(permission_id, resource_name) : TRUE).id)
            /\ UNCHANGED <<ResourceLevelPermissionType, nextResourceTypeId>>
       ELSE /\ nextResourceTypeId <= MaxResourceTypes
            /\ ResourceLevelPermissionType' = ResourceLevelPermissionType \cup
                  { [id |-> nextResourceTypeId, permission_id |-> permission_id, name |-> resource_name] }
            /\ nextResourceTypeId' = nextResourceTypeId + 1
            /\ last' = Call("addResourceTypeForPermission", <<permission_id, resource_name>>, TRUE,
                            nextResourceTypeId)
    /\ UNCHANGED <<AccessGroup, nextAccessGroupId, AccessGroupPermission, AccessGroupUser,
                   ResourceLevelPermission, cache, cacheEngine,
                   createdPermission, pending>>

\* removeResourceTypeForPermission destroying the grants of the declaration with it
removeResourceTypeCascading(permission_id, resource_name) ==
    /\ ResourceLevelPermissionType' =
          ResourceLevelPermissionType \ resourceTypeFor(permission_id, resource_name)
    /\ ResourceLevelPermission' =
          { q \in ResourceLevelPermission :
              \A t \in resourceTypeFor(permission_id, resource_name) : q.resource_type_id # t.id }
    /\ last' = Call("removeResourceTypeForPermission", <<permission_id, resource_name>>, TRUE,
                    resourceTypeFor(permission_id, resource_name) # {})
    /\ UNCHANGED <<AccessGroup, nextAccessGroupId, AccessGroupPermission, AccessGroupUser,
                   nextResourceTypeId, cache, cacheEngine, createdPermission, pending>>

\* AccessControl.removeResourceTypeForPermission: destroys the declaration only
removeResourceTypeForPermission(permission_id, resource_name) ==
    /\ ResourceLevelPermissionType' =
          ResourceLevelPermissionType \ resourceTypeFor(permission_id, resource_name)
    /\ last' = Call("removeResourceTypeForPermission", <<permission_id, resource_name>>, TRUE,
                    resourceTypeFor(permission_id, resource_name) # {})
    /\ UNCHANGED <<AccessGroup, nextAccessGroupId, AccessGroupPermission, AccessGroupUser,
                   nextResourceTypeId, ResourceLevelPermission, cache, cacheEngine,
                   createdPermission, pending>>

\* the cache keys the facade deletes after a grant or a revoke for access_group_id:
\* users.forEach(user => this.clearUserCache(user.id))
clearedAfterResourceChange(c, access_group_id) ==
    clearUserCache(c, getUsersInAccessGroup(access_group_id))

\* AccessControl.addResourceLevelPermission; resource_ids is a non-empty sequence
addResourceLevelPermission(permission_id, resource_ids, resource_name, access_group_id) ==
    LET found == resourceTypeFor(permission_id, resource_name)
        resourceType == CHOOSE t \in found : TRUE
        args == <<permission_id, resource_ids, resource_name, access_group_id>>
    IN /\ IF resource_ids = << >> \/ found = {}
          THEN /\ last' = Call("addResourceLevelPermission", args, FALSE, "Error")
               /\ UNCHANGED <<ResourceLevelPermission, cacheEngine>>
          ELSE /\ ResourceLevelPermission' = ResourceLevelPermission \cup
                     { Grant(permission_id, r, resourceType.id, access_group_id) : r \in Range(resource_ids) }
               /\ cacheEngine' = clearedAfterResourceChange(cacheEngine, access_group_id)
               /\ last' = Call("addResourceLevelPermission", args, TRUE, Range(resource_ids))
       /\ UNCHANGED <<AccessGroup, nextAccessGroupId, AccessGroupPermission, AccessGroupUser,
                      ResourceLevelPermissionType, nextResourceTypeId, cache, createdPermission, pending>>

\* removeResourceLevelPermission with a destroy that leaves access_group_id out of
\* its where
removeResourceLevelPermissionOfAnyGroup(permission_id, resource_ids, resource_name, access_group_id) ==
    LET found == resourceTypeFor(permission_id, resource_name)
        resourceType == CHOOSE t \in found : TRUE
        args == <<permission_id, resource_ids, resource_name, access_group_id>>
        destroyed == { q \in ResourceLevelPermission :
                         /\ q.permission_id = permission_id
                         /\ q.resource_id \in Range(resource_ids)
                         /\ q.resource_type_id = resourceType.id }
    IN /\ IF resource_ids = << >> \/ found = {}
          THEN /\ last' = Call("removeResourceLevelPermission", args, FALSE, "Error")
               /\ UNCHANGED <<ResourceLevelPermission, cacheEngine>>
          ELSE /\ ResourceLevelPermission' = ResourceLevelPermission \ destroyed
               /\ cacheEngine' = clearedAfterResourceChange(cacheEngine, access_group_id)
               /\ last' = Call("removeResourceLevelPermission", args, TRUE, Cardinality(destroyed))
       /\ UNCHANGED <<AccessGroup, nextAccessGroupId, AccessGroupPermission, AccessGroupUser,
                      ResourceLevelPermissionType, nextResourceTypeId, cache, createdPermission, pending>>

\* AccessControl.removeResourceLevelPermission; returns the number of rows destroyed
removeResourceLevelPermission(permission_id, resource_ids, resource_name, access_group_id) ==
    LET found == resourceTypeFor(permission_id, resource_name)
        resourceType == CHOOSE t \in found : TRUE
        args == <<permission_id, resource_ids, resource_name, access_group_id>>
        destroyed == { Grant(permission_id, r, resourceType.id, access_group_id) : r \in Range(resource_ids) }
                        \cap ResourceLevelPermission
    IN /\ IF resource_ids = << >> \/ found = {}
          THEN /\ last' = Call("removeResourceLevelPermission", args, FALSE, "Error")
               /\ UNCHANGED <<ResourceLevelPermission, cacheEngine>>
          ELSE /\ ResourceLevelPermission' = ResourceLevelPermission \ destroyed
               /\ cacheEngine' = clearedAfterResourceChange(cacheEngine, access_group_id)
               /\ last' = Call("removeResourceLevelPermission", args, TRUE, Cardinality(destroyed))
       /\ UNCHANGED <<AccessGroup, nextAccessGroupId, AccessGroupPermission, AccessGroupUser,
                      ResourceLevelPermissionType, nextResourceTypeId, cache, createdPermission, pending>>

\* the values AccessControl.getResourceLevelPermissions can return in the current
\* state: the cached array, or one manager result per row findOne may return
getResourceLevelPermissionsValues(resource_name, permission_id, user_id) ==
    LET key == resourcePermissionsKey(user_id, resource_name, permission_id)
    IN IF cache = "in-memory" /\ cache_has(cacheEngine, key)
       THEN { cacheEngine[key] }
       ELSE { resourceIdsVia(t, permission_id, user_id) : t \in resourceTypeByName(resource_name) }

\* AccessControl.getResourceLevelPermissions(resource_name, permission_id, user_id)
getResourceLevelPermissions(resource_name, permission_id, user_id) ==
    LET key == resourcePermissionsKey(user_id, resource_name, permission_id)
        args == <<resource_name, permission_id, user_id>>
        values == getResourceLevelPermissionsValues(resource_name, permission_id, user_id)
    IN /\ IF values = {}
          THEN /\ last' = Call("getResourceLevelPermissions", args, FALSE, "Error")
               /\ UNCHANGED cacheEngine
          ELSE \E value \in values :
                 /\ last' = Call("getResourceLevelPermissions", args, TRUE, value)
                 /\ cacheEngine' = IF cache = "in-memory"
                                   THEN cache_set(cacheEngine, key, value)
                                   ELSE cacheEngine
       /\ UNCHANGED <<storeVars, cache, createdPermission, pending>>

\* the arrays ResourceLevelPermissionsManager.getResourceLevelPermissions can return
\* in the current state: one per row findOne({ where: { name } }) may return
managerGetResourceLevelPermissions(resource_name, permission_id, user_id) ==
    { resourceIdsVia(t, permission_id, user_id) : t \in resourceTypeByName(resource_name) }

\* resource_ids.some(id => accessibleResources.includes(id))
some(resource_ids, accessibleResources) ==
    \E i \in 1 .. Len(resource_ids) : resource_ids[i] \in accessibleResources

\* resource_ids.every(id => accessibleResources.includes(id))
every(resource_ids, accessibleResources) ==
    \A i \in 1 .. Len(resource_ids) : resource_ids[i] \in accessibleResources

\* AccessControl.hasResourceAccess: forwards to the manager, which asks its own
\* getResourceLevelPermissions (no cache, no look at the user's permission codes)
hasResourceAccess(resource_name, permission_id, resource_ids, user_id) ==
    LET args == <<resource_name, permission_id, resource_ids, user_id>>
        values == managerGetResourceLevelPermissions(resource_name, permission_id, user_id)
    IN /\ IF resource_ids = << >> \/ values = {}
          THEN last' = Call("hasResourceAccess", args, FALSE, "Error")
          ELSE \E accessibleResources \in values :
                 last' = Call("hasResourceAccess", args, TRUE,
                              every(resource_ids, accessibleResources))
       /\ UNCHANGED <<storeVars, cache, cacheEngine,
                   createdPermission, pending>>

\* Array.prototype.sort((a, b) => a - b) of an array of the distinct numbers
RECURSIVE sortAscending(_)
sortAscending(numbers) ==
    IF numbers = {} THEN << >>
    ELSE LET least == CHOOSE a \in numbers : \A b \in numbers : a <= b
         IN << least >> \o sortAscending(numbers \ { least })

\* ResourceLevelPermission.findAll({ where: whereClause }): resource_type_id and
\* permission_id are in the where only when the filter was given (0: not given)
groupGrants(access_group_id, resource_type_id, permission_id) ==
    { q \in ResourceLevelPermission :
        /\ q.access_group_id = access_group_id
        /\ resource_type_id # 0 => q.resource_type_id = resource_type_id
        /\ permission_id # 0 => q.permission_id = permission_id }

\* the included resource_type of a row: the active declaration with its id, if any
resource_type(perm) == { t \in ResourceLevelPermissionType : t.id = perm.resource_type_id }

\* perm.resource_type.name
resourceTypeName(perm) == (CHOOSE t \in resource_type(perm) : TRUE).name

\* the entry of permissionMap for permissionId, with its resource ids sorted
permissionEntry(permissions, permissionId) ==
    LET own == { perm \in permissions : perm.permission_id = permissionId }
    IN [ id |-> permissionId,
         code |-> codeOf(permissionId),
         resources |->
            [ name \in { resourceTypeName(perm) : perm \in own } |->
                sortAscending({ perm.resource_id :
                                  perm \in { q \in own : resourceTypeName(q) = name } }) ] ]

\* permissionsArray after permissionsArray.sort((a, b) => a.id - b.id)
groupPermissionsArray(permissions) ==
    LET ids == sortAscending({ perm.permission_id : perm \in permissions })
    IN [ i \in 1 .. Len(ids) |-> permissionEntry(permissions, ids[i]) ]

\* AccessControl.getAccessGroupResourceLevelPermissions; resource_name "" and
\* permission_id 0 are the filters left out. A row whose declaration is no longer
\* active has resource_type null, and reading its name throws.
getAccessGroupResourceLevelPermissions(access_group_id, resource_name, permission_id) ==
    LET args == <<access_group_id, resource_name, permission_id>>
        filters == IF resource_name = "" THEN { 0 }
                   ELSE { t.id : t \in resourceTypeByName(resource_name) }
    IN /\ IF filters = {}
          THEN last' = Call("getAccessGroupResourceLevelPermissions", args, FALSE, "Error")
          ELSE \E resource_type_id \in filters :
                 LET permissions == groupGrants(access_group_id, resource_type_id, permission_id)
                 IN IF \E perm \in permissions : resource_type(perm) = {}
                    THEN last' = Call("getAccessGroupResourceLevelPermissions", args, FALSE, "Error")
                    ELSE last' = Call("getAccessGroupResourceLevelPermissions", args, TRUE,
                                      [permissions |-> groupPermissionsArray(permissions)])
       /\ UNCHANGED <<storeVars, cache, cacheEngine, createdPermission, pending>>

(***************************************************************************)
(* The Express middleware (authMiddleware.js).                             *)
(***************************************************************************)
\* config.route_access in declaration (property insertion) order; a path is the
\* sequence of its '/'-separated segments
route_access ==
    << [path |-> <<"api", "users", ":id">>, method |-> "GET",
        permissions |-> {"read:users", "update:users"}],
       [path |-> <<"api", "users">>, method |-> "GET",
        permissions |-> {"read:users"}],
       [path |-> <<"api", "open">>, method |-> "GET",
        permissions |-> {}],
       [path |-> <<"users", ":id">>, method |-> "GET",
        permissions |-> {"read:users"}],
       [path |-> <<"users", "active">>, method |-> "GET",
        permissions |-> {"update:users"}],
       [path |-> <<"api", "v1.0">>, method |-> "GET",
        permissions |-> {"read:users"}],
       [path |-> <<"api", "reports">>, method |-> "get",
        permissions |-> {"read:users"}] >>

ParamSegments == { ":id" }

\* method.toUpperCase()
toUpperCase(method) ==
    CASE method = "get" -> "GET"
      [] method = "post" -> "POST"
      [] OTHER -> method

\* a literal segment goes into the RegExp source as written, so its '.' stands for
\* any one character; the other characters of the segments used here stand for
\* themselves
literalTest(routeSegment, segment) ==
    \/ routeSegment = segment
    \/ routeSegment = "v1.0" /\ segment \in { "v1x0", "v1-0" }

\* one segment of ^pattern$: ':param' has become ([^/]+), a literal stays itself
segmentMatches(routeSegment, segment) ==
    IF routeSegment \in ParamSegments THEN segment # "" ELSE literalTest(routeSegment, segment)

\* regex.test(path) for the anchored pattern built from routePath
regexTest(routePath, path) ==
    /\ Len(routePath) = Len(path)
    /\ \A i \in 1 .. Len(routePath) : segmentMatches(routePath[i], path[i])

\* getRouteAccess returning the last matching route instead of the first
getRouteAccessLast(path, method) ==
    LET matching == { i \in 1 .. Len(route_access) :
                        /\ regexTest(route_access[i].path, path)
                        /\ route_access[i].method = toUpperCase(method) }
    IN IF matching = {} THEN 0
       ELSE CHOOSE i \in matching : \A j \in matching : i >= j

\* getRouteAccess without the comparison of the methods
getRouteAccessAnyMethod(path, method) ==
    LET matching == { i \in 1 .. Len(route_access) : regexTest(route_access[i].path, path) }
    IN IF matching = {} THEN 0
       ELSE CHOOSE i \in matching : \A j \in matching : i <= j

\* getRouteAccess: the index in route_access of the first route whose pattern matches
\* the path and whose method equals the upper-cased request method; 0 stands for null
getRouteAccess(path, method) ==
    LET matching == { i \in 1 .. Len(route_access) :
                        /\ regexTest(route_access[i].path, path)
                        /\ route_access[i].method = toUpperCase(method) }
    IN IF matching = {} THEN 0
       ELSE CHOOSE i \in matching : \A j \in matching : i <= j

\* req.headers.authorization: [scheme, token]; scheme "" is a missing header
NoAuthorization == [scheme |-> "", token |-> ""]

\* a check of the header's presence only
headerPresent(authHeader) == authHeader.scheme # ""

\* authHeader && authHeader.startsWith('Bearer ')
startsWithBearer(authHeader) == authHeader.scheme = "Bearer"

\* jwt.verify(token, secret) throws
jwtVerifyThrows(token) == token \notin {"anon", "u1", "u2"}

\* decoded[userIdKey]; 0 stands for a missing (falsy) field
decodedUserId(token) ==
    CASE token = "u1" -> 1
      [] token = "u2" -> 2
      [] OTHER -> 0

\* what the handler has done when it returns
Outcome(route, readHeader, verified, consulted, userId, userPermissions, status, nextCalls, attached) ==
    [ route |-> route,                      \* routeAccess (index, 0 = null)
      readHeader |-> readHeader,            \* req.headers.authorization was read
      verified |-> verified,                \* jwt.verify was called
      consulted |-> consulted,              \* getUserPermissions (cache, then store) was called
      userId |-> userId,                    \* the local userId (0: none)
      userPermissions |-> userPermissions,  \* the local userPermissions ({} when not resolved)
      status |-> status,                    \* res.status(...) (0: no response sent)
      nextCalls |-> nextCalls,              \* number of calls of next()
      reqUserId |-> IF attached THEN userId ELSE 0,
      reqUserPermissions |-> IF attached THEN userPermissions ELSE {} ]

\* the decision with every() in the place of some()
decideEvery(route, userId, userPermissions) ==
    IF "super_admin" \in userPermissions
    THEN Outcome(route, TRUE, TRUE, TRUE, userId, userPermissions, 0, 1, TRUE)
    ELSE IF \A permission \in route_access[route].permissions : permission \in userPermissions
         THEN Outcome(route, TRUE, TRUE, TRUE, userId, userPermissions, 0, 1, TRUE)
         ELSE Outcome(route, TRUE, TRUE, TRUE, userId, userPermissions, 403, 0, FALSE)

\* the decision without the super_admin short-circuit
decideWithoutSuperAdmin(route, userId, userPermissions) ==
    IF \E permission \in route_access[route].permissions : permission \in userPermissions
    THEN Outcome(route, TRUE, TRUE, TRUE, userId, userPermissions, 0, 1, TRUE)
    ELSE Outcome(route, TRUE, TRUE, TRUE, userId, userPermissions, 403, 0, FALSE)

\* the decision with req.userId and req.userPermissions set before the checks
decideAfterAttaching(route, userId, userPermissions) ==
    IF "super_admin" \in userPermissions
    THEN Outcome(route, TRUE, TRUE, TRUE, userId, userPermissions, 0, 1, TRUE)
    ELSE IF \E permission \in route_access[route].permissions : permission \in userPermissions
         THEN Outcome(route, TRUE, TRUE, TRUE, userId, userPermissions, 0, 1, TRUE)
         ELSE Outcome(route, TRUE, TRUE, TRUE, userId, userPermissions, 403, 0, TRUE)

\* the decision with the return missing on the super_admin path: next() is called and
\* the check of the route's permissions follows
decideWithoutReturn(route, userId, userPermissions) ==
    IF \E permission \in route_access[route].permissions : permission \in userPermissions
    THEN Outcome(route, TRUE, TRUE, TRUE, userId, userPermissions, 0,
                 IF "super_admin" \in userPermissions THEN 2 ELSE 1, TRUE)
    ELSE Outcome(route, TRUE, TRUE, TRUE, userId, userPermissions, 403,
                 IF "super_admin" \in userPermissions THEN 1 ELSE 0,
                 "super_admin" \in userPermissions)

\* the handler's decision once userPermissions is resolved (lines 161-189)
decide(route, userId, userPermissions) ==
    IF "super_admin" \in userPermissions
    THEN Outcome(route, TRUE, TRUE, TRUE, userId, userPermissions, 0, 1, TRUE)
    ELSE IF \E permission \in route_access[route].permissions : permission \in userPermissions
         THEN Outcome(route, TRUE, TRUE, TRUE, userId, userPermissions, 0, 1, TRUE)
         ELSE Outcome(route, TRUE, TRUE, TRUE, userId, userPermissions, 403, 0, FALSE)

\* the middleware's getUserPermissions with a catch that returns instead of rethrowing
mwGetUserPermissionsSwallows(userId, storeFails) == FALSE

\* the middleware's own getUserPermissions throws: only the store query can fail
mwGetUserPermissionsThrows(userId, storeFails) ==
    /\ storeFails
    /\ ~(cache = "in-memory" /\ cache_has(cacheEngine, userPermissionsKey(userId)))

\* the returned handler, async function(req, res, next)
authMiddleware(req, storeFails) ==
    LET route == getRouteAccess(req.path, req.method)
        authHeader == req.authorization
        userId == decodedUserId(authHeader.token)
    IN IF route = 0
       THEN Outcome(0, FALSE, FALSE, FALSE, 0, {}, 0, 1, FALSE)
       ELSE IF ~startsWithBearer(authHeader)
       THEN Outcome(route, TRUE, FALSE, FALSE, 0, {}, 401, 0, FALSE)
       ELSE IF jwtVerifyThrows(authHeader.token)
       THEN Outcome(route, TRUE, TRUE, FALSE, 0, {}, 401, 0, FALSE)
       ELSE IF userId = 0
       THEN Outcome(route, TRUE, TRUE, FALSE, 0, {}, 401, 0, FALSE)
       ELSE IF mwGetUserPermissionsThrows(userId, storeFails)
       THEN Outcome(route, TRUE, TRUE, TRUE, userId, {}, 500, 0, FALSE)
       ELSE decide(route, userId, getUserPermissionsValue(userId))

\* one request handled by the middleware
handleRequest(req, storeFails) ==
    LET out == authMiddleware(req, storeFails)
    IN /\ last' = Call("authMiddleware", <<req>>, TRUE, out)
       /\ cacheEngine' = IF out.consulted /\ out.status # 500
                         THEN getUserPermissionsCache(out.userId)
                         ELSE cacheEngine
       /\ UNCHANGED <<storeVars, cache, createdPermission, pending>>

\* the handler up to await getUserPermissions(userId) (lines 107-152): it returns
\* before when the route is not declared or the identity is not established
handleRequest_await(caller, req) ==
    LET out == authMiddleware(req, FALSE)
    IN /\ pending[caller] = Idle
       /\ IF out.consulted
          THEN /\ suspend(caller, [op |-> "authMiddleware", req |-> req])
               /\ UNCHANGED last
          ELSE /\ last' = Call("authMiddleware", <<req>>, TRUE, out)
               /\ UNCHANGED pending
       /\ UNCHANGED <<storeVars, cache, cacheEngine, createdPermission>>

\* the handler once getUserPermissions has returned or thrown (lines 152-189)
handleRequest_settled(caller, storeFails) ==
    LET call == pending[caller]
        out == authMiddleware(call.req, storeFails)
    IN /\ call.op = "authMiddleware"
       /\ last' = Call("authMiddleware", <<call.req>>, TRUE, out)
       /\ cacheEngine' = IF out.consulted /\ out.status # 500
                         THEN getUserPermissionsCache(out.userId)
                         ELSE cacheEngine
       /\ done(caller)
       /\ UNCHANGED <<storeVars, cache, createdPermission>>

Request(path, method, authorization) ==
    [path |-> path, method |-> method, authorization |-> authorization]

(***************************************************************************)
(* Specifications.  Each draws the arguments of the calls from small sets. *)
(***************************************************************************)
\* the permissions the flat specifications assign
AssignedPermissionIds == { 1, 2 }

PermissionData(permission_id) ==
    [permission_id |-> permission_id, resource_level_permissions |-> << >>]

Undefined == [defined |-> FALSE, value |-> << >>]

Defined(value) == [defined |-> TRUE, value |-> value]

\* arguments of createAccessGroupWithAssignments
CreateData ==
    [ name : { "Editors" },
      user_ids : { <<2>>, <<1, 2>> },
      permissions : { <<PermissionData(2)>> } ]

NoName == [defined |-> FALSE, value |-> ""]

\* arguments of updateAccessGroupWithAssignments
UpdateData ==
    { [ name |-> NoName, user_ids |-> Defined(<<1>>), permissions |-> Undefined,
        replace_assignments |-> TRUE ],
      [ name |-> NoName, user_ids |-> Undefined, permissions |-> Defined(<<PermissionData(2)>>),
        replace_assignments |-> TRUE ],
      [ name |-> NoName, user_ids |-> Defined(<<1>>), permissions |-> Defined(<<PermissionData(2)>>),
        replace_assignments |-> FALSE ],
      [ name |-> NoName, user_ids |-> Defined(<< >>), permissions |-> Defined(<< >>),
        replace_assignments |-> TRUE ] }

\* the ids access_groups has given out so far (deleted groups included)
CreatedIds == 1 .. (nextAccessGroupId - 1)

\* requests carrying a valid token, one per user, to the route that requires read:users
MemberRequests ==
    { [path |-> <<"api", "users">>, method |-> "GET",
       authorization |-> [scheme |-> "Bearer", token |-> t]] : t \in {"u1", "u2"} }

FlatNext ==
    \/ \E u \in User : getUserPermissions(u)
    \/ createAccessGroup("Editors")
    \/ \E g \in CreatedIds : deleteAccessGroup(g)
    \/ \E g \in CreatedIds, p \in AssignedPermissionIds : assignPermissionToAccessGroup(g, p)
    \/ \E g \in CreatedIds, p \in AssignedPermissionIds : removePermissionFromAccessGroup(g, p)
    \/ \E g \in CreatedIds, u \in User : addUserToAccessGroup(g, u)
    \/ \E g \in CreatedIds, u \in User : removeUserFromAccessGroup(g, u)
    \/ \E d \in CreateData : createAccessGroupWithAssignments(d, "none")
    \/ \E g \in CreatedIds, d \in UpdateData : updateAccessGroupWithAssignments(g, d, "none")

Init ==
    /\ cache = "in-memory"
    /\ InitStore

Next ==
    \/ FlatNext
    \/ \E req \in MemberRequests : handleRequest(req, FALSE)

\* cache: 'in-memory'
Spec == Init /\ [][Next]_vars

InitNoCache ==
    /\ cache = "false"
    /\ InitStore

\* cache: false
SpecNoCache == InitNoCache /\ [][FlatNext]_vars

\* requests of every shape
Requests ==
    [ path : { <<"api", "users", "42">>, <<"api", "users">>, <<"api", "open">>,
               <<"api", "users", "42", "details">>, <<"api", "users", "">> },
      method : { "GET", "get", "POST" },
      authorization : { NoAuthorization,
                        [scheme |-> "Basic", token |-> "u1"],
                        [scheme |-> "Bearer", token |-> "bad"],
                        [scheme |-> "Bearer", token |-> "anon"],
                        [scheme |-> "Bearer", token |-> "u1"] } ]

InitMw ==
    /\ cache \in { "in-memory", "false" }
    /\ InitStore

NextMw ==
    \/ \E req \in Requests, storeFails \in BOOLEAN : handleRequest(req, storeFails)
    \/ \E p \in PermissionIds : assignPermissionToAccessGroup(1, p)
    \/ \E p \in PermissionIds : removePermissionFromAccessGroup(1, p)
    \/ addUserToAccessGroup(1, 1)
    \/ removeUserFromAccessGroup(1, 1)

\* the middleware in front of a store that changes between the requests
SpecMw == InitMw /\ [][NextMw]_vars

\* requests of a declared and of an undeclared route, without a token, with a token
\* that does not verify and with the token of user 1
PendingRequests ==
    [ path : { <<"api", "users", "42">>, <<"api", "users", "42", "details">> },
      method : { "GET" },
      authorization : { NoAuthorization,
                        [scheme |-> "Bearer", token |-> "bad"],
                        [scheme |-> "Bearer", token |-> "u1"] } ]

NextPending ==
    \/ \E caller \in Callers, req \in PendingRequests : handleRequest_await(caller, req)
    \/ \E caller \in Callers, storeFails \in BOOLEAN : handleRequest_settled(caller, storeFails)
    \/ \E p \in PermissionIds : assignPermissionToAccessGroup(1, p)
    \/ \E p \in PermissionIds : removePermissionFromAccessGroup(1, p)
    \/ addUserToAccessGroup(1, 1)
    \/ removeUserFromAccessGroup(1, 1)

\* requests in flight: the store query of a request returns or fails in the end
SpecPending ==
    /\ InitMw
    /\ [][NextPending]_vars
    /\ \A caller \in Callers :
          WF_vars(\E storeFails \in BOOLEAN : handleRequest_settled(caller, storeFails))

\* requests against the routes with a ':param', a literal with a '.', overlapping
\* patterns and a method declared in lower case
RouteRequests ==
    [ path : { <<"api", "users", "42">>, <<"api", "users", "42", "details">>,
               <<"api", "users", "">>, <<"users", "42">>, <<"users", "active">>,
               <<"api", "v1.0">>, <<"api", "v1x0">>, <<"api", "reports">> },
      method : { "GET", "get", "POST" },
      authorization : { NoAuthorization, [scheme |-> "Bearer", token |-> "u1"] } ]

NextRoute ==
    \/ \E req \in RouteRequests : handleRequest(req, FALSE)
    \/ \E p \in PermissionIds : assignPermissionToAccessGroup(1, p)
    \/ \E p \in PermissionIds : removePermissionFromAccessGroup(1, p)
    \/ addUserToAccessGroup(1, 1)
    \/ removeUserFromAccessGroup(1, 1)

\* the matching of the routes, cache: false
SpecRoute == InitNoCache /\ [][NextRoute]_vars

\* arguments permissions of hasPermission: one code, or an array of codes
PermissionsArguments ==
    { [isArray |-> FALSE, value |-> "read:users"],
      [isArray |-> FALSE, value |-> "super_admin"],
      [isArray |-> TRUE, value |-> << >>],
      [isArray |-> TRUE, value |-> <<"update:users">>],
      [isArray |-> TRUE, value |-> <<"read:users", "update:users">>] }

NextHas ==
    \/ \E u \in User, permissions \in PermissionsArguments, storeFails \in BOOLEAN :
          hasPermission(u, permissions, storeFails)
    \/ \E u \in User : getUserPermissions(u)
    \/ \E p \in PermissionIds : assignPermissionToAccessGroup(1, p)
    \/ \E p \in PermissionIds : removePermissionFromAccessGroup(1, p)
    \/ \E u \in User : addUserToAccessGroup(1, u)
    \/ \E u \in User : removeUserFromAccessGroup(1, u)

\* hasPermission against a store that changes between the calls, cache on or off
SpecHas == InitMw /\ [][NextHas]_vars

\* requests of a declared and of an undeclared route, without a token, with a token
\* that does not verify, with one that names no user and with the token of user 1
FailingRequests ==
    [ path : { <<"api", "users", "42">>, <<"api", "users", "42", "details">> },
      method : { "GET" },
      authorization : { NoAuthorization,
                        [scheme |-> "Bearer", token |-> "bad"],
                        [scheme |-> "Bearer", token |-> "anon"],
                        [scheme |-> "Bearer", token |-> "u1"] } ]

NextFailing ==
    \/ \E req \in FailingRequests, storeFails \in BOOLEAN : handleRequest(req, storeFails)
    \/ \E permissions \in PermissionsArguments, storeFails \in BOOLEAN :
          hasPermission(1, permissions, storeFails)
    \/ \E p \in PermissionIds : assignPermissionToAccessGroup(1, p)
    \/ \E p \in PermissionIds : removePermissionFromAccessGroup(1, p)
    \/ addUserToAccessGroup(1, 1)
    \/ removeUserFromAccessGroup(1, 1)

\* the middleware and hasPermission in front of a store whose query may fail
SpecFailing == InitMw /\ [][NextFailing]_vars

\* the permissions the resource-level calls are about
ScopedPermissionIds == { 2, 3 }

\* arguments resource_ids of the grants and revokes
ResourceIdLists == { <<5>> }

NextRes ==
    \/ createAccessGroup("Editors")
    \/ \E g \in CreatedIds : addUserToAccessGroup(g, 1)
    \/ \E g \in CreatedIds : removeUserFromAccessGroup(g, 1)
    \/ \E p \in ScopedPermissionIds, n \in ResourceNames : addResourceTypeForPermission(p, n)
    \/ \E p \in ScopedPermissionIds, n \in ResourceNames : removeResourceTypeForPermission(p, n)
    \/ \E p \in ScopedPermissionIds, ids \in ResourceIdLists, n \in ResourceNames, g \in CreatedIds :
          addResourceLevelPermission(p, ids, n, g)
    \/ \E p \in ScopedPermissionIds, ids \in ResourceIdLists, n \in ResourceNames, g \in CreatedIds :
          removeResourceLevelPermission(p, ids, n, g)
    \/ \E p \in ScopedPermissionIds, n \in ResourceNames : getResourceLevelPermissions(n, p, 1)

\* the resource-level calls, cache: 'in-memory'
SpecRes == Init /\ [][NextRes]_vars

\* the resource-level calls, cache: false (the facade returns what the manager returns)
SpecResNoCache == InitNoCache /\ [][NextRes]_vars

\* resource type names, argument lists and declarations of the revokes
RevokeNames == { "location", "project" }

RevokeIdLists == { << >>, <<5>>, <<5, 6>> }

RevokeDeclarations == { <<2, "location">>, <<2, "project">>, <<3, "location">> }

NextRevoke ==
    \/ \E name \in { "Editors", "Viewers" } : createAccessGroup(name)
    \/ \E d \in RevokeDeclarations : addResourceTypeForPermission(d[1], d[2])
    \/ removeResourceTypeForPermission(2, "location")
    \/ \E d \in RevokeDeclarations : addResourceLevelPermission(d[1], <<5, 6>>, d[2], 1)
    \/ \E g \in CreatedIds : addResourceLevelPermission(2, <<5, 6>>, "location", g)
    \/ \E p \in ScopedPermissionIds, ids \in RevokeIdLists, n \in RevokeNames :
          removeResourceLevelPermission(p, ids, n, 1)

\* grants to two groups under several declarations, and their revokes; cache: false
SpecRevoke == InitNoCache /\ [][NextRevoke]_vars

NextView ==
    \/ \E p \in ScopedPermissionIds : assignPermissionToAccessGroup(1, p)
    \/ \E d \in RevokeDeclarations : addResourceTypeForPermission(d[1], d[2])
    \/ removeResourceTypeForPermission(2, "project")
    \/ \E d \in RevokeDeclarations, ids \in { <<6>>, <<5>> } :
          addResourceLevelPermission(d[1], ids, d[2], 1)
    \/ \E n \in { "", "location" }, p \in { 0, 3 } :
          getAccessGroupResourceLevelPermissions(1, n, p)

\* the view of the grants of the group of the initial data between links,
\* declarations and grants; cache: false
SpecView == InitNoCache /\ [][NextView]_vars

NextLookup ==
    \/ addUserToAccessGroup(1, 1)
    \/ \E d \in RevokeDeclarations : addResourceTypeForPermission(d[1], d[2])
    \/ \E d \in RevokeDeclarations : addResourceLevelPermission(d[1], <<5>>, d[2], 1)
    \/ \E n \in RevokeNames, p \in ScopedPermissionIds : getResourceLevelPermissions(n, p, 1)
    \/ \E n \in RevokeNames, p \in ScopedPermissionIds, ids \in { <<5>>, <<5, 6>> } :
          hasResourceAccess(n, p, ids, 1)

\* lookups of a member's resource ids while declarations are added and never removed;
\* cache: false
SpecLookup == InitNoCache /\ [][NextLookup]_vars

\* no call is in flight and nothing is cached yet
beforeTheRequests == cacheEngine = << >> /\ \A caller \in Callers : pending[caller] = Idle

\* the update that replaces the permissions of a group by none
RevokingUpdateData ==
    [ name |-> NoName, user_ids |-> Undefined, permissions |-> Defined(<< >>),
      replace_assignments |-> TRUE ]

\* a group is given a member and permissions before the first request; then reads of
\* the member's permissions are in flight together with the calls that revoke
NextStale ==
    \/ beforeTheRequests /\ addUserToAccessGroup(1, 1)
    \/ beforeTheRequests /\ assignPermissionToAccessGroup(1, 2)
    \/ \E caller \in Callers : getUserPermissions_fetch(caller, 1)
    \/ \E caller \in Callers : getUserPermissions_set(caller)
    \/ \E caller \in Callers, p \in AssignedPermissionIds :
          removePermissionFromAccessGroup_destroy(caller, 1, p)
    \/ \E caller \in Callers : removePermissionFromAccessGroup_clear(caller)
    \/ \E caller \in Callers : updateAccessGroupWithAssignments_findOne(caller, 1, RevokingUpdateData)
    \/ \E caller \in Callers : updateAccessGroupWithAssignments_commit(caller)

\* reads and revokes in flight together, cache: 'in-memory'
SpecStale == Init /\ [][NextStale]_vars

NextDeleteRace ==
    \/ createAccessGroup("Editors")
    \/ \E caller \in Callers, g \in CreatedIds : deleteAccessGroup_count(caller, g)
    \/ \E caller \in Callers : deleteAccessGroup_destroy(caller)
    \/ \E g \in CreatedIds : addUserToAccessGroup(g, 1)
    \/ \E g \in CreatedIds : removeUserFromAccessGroup(g, 1)
    \/ \E g \in CreatedIds : assignPermissionToAccessGroup(g, 2)
    \/ \E g \in CreatedIds : removePermissionFromAccessGroup(g, 2)
    \/ addResourceTypeForPermission(2, "location")
    \/ \E g \in CreatedIds : addResourceLevelPermission(2, <<5>>, "location", g)
    \/ \E g \in CreatedIds : removeResourceLevelPermission(2, <<5>>, "location", g)
    \/ \E g \in CreatedIds, d \in UpdateData : updateAccessGroupWithAssignments(g, d, "none")

\* deletions of groups in flight with the calls that link and grant; cache: false
SpecDeleteRace == InitNoCache /\ [][NextDeleteRace]_vars

NextDelete ==
    \/ createAccessGroup("Editors")
    \/ \E g \in CreatedIds : deleteAccessGroup(g)
    \/ \E g \in CreatedIds, p \in AssignedPermissionIds : assignPermissionToAccessGroup(g, p)
    \/ \E g \in CreatedIds, p \in AssignedPermissionIds : removePermissionFromAccessGroup(g, p)
    \/ \E g \in CreatedIds : addUserToAccessGroup(g, 1)
    \/ \E g \in CreatedIds : removeUserFromAccessGroup(g, 1)
    \/ \E n \in ResourceNames : addResourceTypeForPermission(2, n)
    \/ \E ids \in ResourceIdLists, n \in ResourceNames, g \in CreatedIds :
          addResourceLevelPermission(2, ids, n, g)
    \/ \E ids \in ResourceIdLists, n \in ResourceNames, g \in CreatedIds :
          removeResourceLevelPermission(2, ids, n, g)

\* deletions of groups between changes of their links and grants
SpecDelete == Init /\ [][NextDelete]_vars

\* permissionData with resource_level_permissions { location: resource_ids }
PermissionDataFor(permission_id, resource_ids) ==
    [ permission_id |-> permission_id,
      resource_level_permissions |->
          << [resource_name |-> "location", isArray |-> TRUE, resource_ids |-> resource_ids] >> ]

\* permissionData with resource_level_permissions { location: <not an array> }
PermissionDataNoArray(permission_id) ==
    [ permission_id |-> permission_id,
      resource_level_permissions |->
          << [resource_name |-> "location", isArray |-> FALSE, resource_ids |-> << >>] >> ]

\* arguments of createAccessGroupWithAssignments, valid and invalid: a duplicate name,
\* an unknown user (3), an unknown permission id (9) and a missing one (0) in second
\* position, resource ids that are not an array
BulkCreateData ==
    { [ name |-> "Editors", user_ids |-> <<1, 2>>,
        permissions |-> << PermissionDataFor(2, <<5>>) >> ],
      [ name |-> "Super Admin", user_ids |-> <<1>>, permissions |-> << PermissionData(2) >> ],
      [ name |-> "Editors", user_ids |-> <<1, 3>>, permissions |-> << PermissionData(2) >> ],
      [ name |-> "Editors", user_ids |-> <<1>>,
        permissions |-> << PermissionData(2), PermissionData(9) >> ],
      [ name |-> "Editors", user_ids |-> << >>,
        permissions |-> << PermissionDataFor(2, <<5>>), PermissionData(0) >> ],
      [ name |-> "Editors", user_ids |-> <<2>>,
        permissions |-> << PermissionData(3), PermissionDataNoArray(2) >> ] }

\* arguments of updateAccessGroupWithAssignments: user_ids and permissions supplied or
\* omitted, replace and additive mode, valid and invalid
BulkUpdateData ==
    { [ name |-> NoName, user_ids |-> Defined(<<2>>), permissions |-> Undefined,
        replace_assignments |-> TRUE ],
      [ name |-> NoName, user_ids |-> Undefined,
        permissions |-> Defined(<< PermissionDataFor(3, <<6>>) >>), replace_assignments |-> TRUE ],
      [ name |-> NoName, user_ids |-> Defined(<<2>>),
        permissions |-> Defined(<< PermissionData(3) >>), replace_assignments |-> TRUE ],
      [ name |-> NoName, user_ids |-> Defined(<< >>), permissions |-> Defined(<< >>),
        replace_assignments |-> TRUE ],
      [ name |-> NoName, user_ids |-> Defined(<<2, 3>>), permissions |-> Undefined,
        replace_assignments |-> TRUE ],
      [ name |-> NoName, user_ids |-> Defined(<<2>>),
        permissions |-> Defined(<< PermissionData(3), PermissionData(9) >>),
        replace_assignments |-> TRUE ],
      [ name |-> NoName, user_ids |-> Defined(<<2>>),
        permissions |-> Defined(<< PermissionData(3) >>), replace_assignments |-> FALSE ],
      [ name |-> NoName, user_ids |-> Undefined,
        permissions |-> Defined(<< PermissionDataFor(2, <<5, 6>>) >>), replace_assignments |-> FALSE ],
      [ name |-> Defined("Super Admin"), user_ids |-> Defined(<<2>>), permissions |-> Undefined,
        replace_assignments |-> TRUE ],
      [ name |-> Defined(" Editors "), user_ids |-> Undefined, permissions |-> Undefined,
        replace_assignments |-> TRUE ] }

\* the arguments the store fails on: valid ones, so that the failure of the store is
\* the only error of the call
FailingCreateData == { d \in BulkCreateData : d.user_ids = <<1, 2>> }

FailingUpdateData ==
    { d \in BulkUpdateData :
        /\ d.replace_assignments /\ ~d.name.defined
        /\ d.permissions \in { Defined(<< PermissionDataFor(3, <<6>>) >>),
                               Defined(<< PermissionData(3) >>) } }

NextBulk ==
    \/ \E d \in BulkCreateData : createAccessGroupWithAssignments(d, "none")
    \/ \E d \in FailingCreateData, storeFails \in StoreFailures \ { "none", "afterCommit" } :
          createAccessGroupWithAssignments(d, storeFails)
    \/ \E g \in CreatedIds, d \in BulkUpdateData :
          updateAccessGroupWithAssignments(g, d, "none")
    \/ \E g \in CreatedIds, d \in FailingUpdateData, storeFails \in StoreFailures \ { "none" } :
          updateAccessGroupWithAssignments(g, d, storeFails)

\* the bulk calls with valid and invalid arguments and with a failing store, cache: false
SpecBulk == InitNoCache /\ [][NextBulk]_vars

\* the names the groups are given, with and without surrounding blanks
GroupNames == { "Editors", " Editors ", "Super Admin" }

\* arguments of createAccessGroupWithAssignments in SpecNames
NamesCreateData == [ name : GroupNames, user_ids : { << >>, <<1>> }, permissions : { << >> } ]

\* arguments of updateAccessGroupWithAssignments in SpecNames: a rename, with or
\* without user_ids, and an update without a name
NamesUpdateData ==
    [ name : { Defined(n) : n \in GroupNames } \cup { NoName },
      user_ids : { Undefined, Defined(<<2>>) },
      permissions : { Undefined },
      replace_assignments : { TRUE } ]

\* arguments of createPermission: a code in use, the same with blanks, a new code,
\* with and without the name
PermissionsToCreate ==
    [ code : { "read:users", " read:users ", "delete:users" }, name : { "", "A permission" } ]

\* arguments with a missing name, a permission entry without permission_id, resource
\* ids that are no array, and well-formed ones
ValidationCreateData ==
    { [ name |-> "", user_ids |-> <<1>>, permissions |-> << PermissionData(2) >> ],
      [ name |-> "Editors", user_ids |-> <<1>>,
        permissions |-> << PermissionData(2), PermissionData(0) >> ],
      [ name |-> "Editors", user_ids |-> <<1>>,
        permissions |-> << PermissionDataNoArray(2) >> ],
      [ name |-> "Editors", user_ids |-> <<1>>, permissions |-> << PermissionData(2) >> ] }

ValidationUpdateData ==
    { [ name |-> NoName, user_ids |-> Defined(<<1>>),
        permissions |-> Defined(<< PermissionData(0) >>), replace_assignments |-> TRUE ],
      [ name |-> NoName, user_ids |-> Undefined,
        permissions |-> Defined(<< PermissionDataNoArray(2) >>), replace_assignments |-> FALSE ],
      [ name |-> NoName, user_ids |-> Defined(<<1>>),
        permissions |-> Defined(<< PermissionData(2) >>), replace_assignments |-> TRUE ] }

NextValidation ==
    \/ \E caller \in Callers, d \in ValidationCreateData :
          createAccessGroupWithAssignments_transaction(caller, d)
    \/ \E caller \in Callers : createAccessGroupWithAssignments_try(caller)
    \/ \E caller \in Callers, g \in CreatedIds, d \in ValidationUpdateData :
          updateAccessGroupWithAssignments_transaction(caller, g, d)
    \/ \E caller \in Callers : updateAccessGroupWithAssignments_try(caller)
    \/ addResourceTypeForPermission(2, "location")
    \/ \E ids \in { << >>, <<5>> }, g \in CreatedIds :
          addResourceLevelPermission(2, ids, "location", g)
    \/ \E ids \in { << >>, <<5>> }, g \in CreatedIds :
          removeResourceLevelPermission(2, ids, "location", g)

\* calls with malformed and with well-formed arguments; cache: false
SpecValidation == InitNoCache /\ [][NextValidation]_vars

NextNames ==
    \/ \E name \in GroupNames : createAccessGroup(name)
    \/ \E g \in AccessGroupIds, name \in GroupNames : updateAccessGroup(g, name)
    \/ \E g \in CreatedIds : deleteAccessGroup(g)
    \/ removePermissionFromAccessGroup(1, 1)
    \/ \E d \in NamesCreateData : createAccessGroupWithAssignments(d, "none")
    \/ \E g \in AccessGroupIds, d \in NamesUpdateData :
          updateAccessGroupWithAssignments(g, d, "none")
    \/ \E permission \in PermissionsToCreate : createPermission(permission)

\* creations and renames of groups and creations of permissions, one call at a time
SpecNames == InitNoCache /\ [][NextNames]_vars

\* the names the overlapping calls ask for
RaceNames == { "Editors", "Super Admin" }

\* arguments of createAccessGroupWithAssignments in SpecRace
RaceCreateData ==
    { [ name |-> "Editors", user_ids |-> <<1>>, permissions |-> << PermissionData(2) >> ] }

\* arguments of updateAccessGroupWithAssignments in SpecRace: a rename alone
RaceUpdateData ==
    { [ name |-> Defined(n), user_ids |-> Undefined, permissions |-> Undefined,
        replace_assignments |-> TRUE ] : n \in RaceNames }

\* arguments of createPermission in SpecRace
RacePermissions ==
    { [ code |-> "delete:users", name |-> "A permission" ],
      [ code |-> "read:users", name |-> "A permission" ] }

NextRace ==
    \/ \E caller \in Callers, name \in RaceNames : createAccessGroup_findOne(caller, name)
    \/ \E caller \in Callers : createAccessGroup_create(caller)
    \/ \E caller \in Callers, g \in AccessGroupIds, name \in RaceNames :
          updateAccessGroup_findOne(caller, g, name)
    \/ \E caller \in Callers : updateAccessGroup_update(caller)
    \/ \E caller \in Callers, permission \in RacePermissions :
          createPermission_findOne(caller, permission)
    \/ \E caller \in Callers : createPermission_create(caller)
    \/ \E caller \in Callers, d \in RaceCreateData :
          createAccessGroupWithAssignments_findOne(caller, d)
    \/ \E caller \in Callers : createAccessGroupWithAssignments_commit(caller)
    \/ \E caller \in Callers, g \in AccessGroupIds, d \in RaceUpdateData :
          updateAccessGroupWithAssignments_findOne(caller, g, d)
    \/ \E caller \in Callers : updateAccessGroupWithAssignments_commit(caller)
    \/ \E caller \in Callers : setupInitialData_findOne(caller)
    \/ \E caller \in Callers : setupInitialData_create(caller)

\* creations and renames by two callers whose calls overlap, cache: false
SpecRace == InitNoCache /\ [][NextRace]_vars

\* arguments resource_ids of the grants and of the checks in SpecAccess
GrantedIdLists == { <<5>>, <<6>> }

CheckedIdLists == { << >>, <<5>>, <<5, 6>> }

NextAccess ==
    \/ addUserToAccessGroup(1, 1)
    \/ removeUserFromAccessGroup(1, 1)
    \/ \E p \in ScopedPermissionIds, n \in ResourceNames : addResourceTypeForPermission(p, n)
    \/ \E p \in ScopedPermissionIds, n \in ResourceNames : removeResourceTypeForPermission(p, n)
    \/ \E p \in ScopedPermissionIds, ids \in GrantedIdLists, n \in ResourceNames :
          addResourceLevelPermission(p, ids, n, 1)
    \/ \E p \in ScopedPermissionIds, ids \in GrantedIdLists, n \in ResourceNames :
          removeResourceLevelPermission(p, ids, n, 1)
    \/ \E p \in ScopedPermissionIds, ids \in CheckedIdLists, n \in ResourceNames :
          hasResourceAccess(n, p, ids, 1)

\* the checks of resource access against a changing store
SpecAccess == InitNoCache /\ [][NextAccess]_vars

(***************************************************************************)
(* Properties of the middleware.                                           *)
(***************************************************************************)
lastRequest == last.args[1]

\* the request matches a declared route
matchesRoute(req) ==
    \E i \in 1 .. Len(route_access) :
        /\ regexTest(route_access[i].path, req.path)
        /\ route_access[i].method = toUpperCase(req.method)

\* the request carries a token that verifies and names a user
validIdentity(req) ==
    /\ req.authorization.scheme = "Bearer"
    /\ ~jwtVerifyThrows(req.authorization.token)
    /\ decodedUserId(req.authorization.token) # 0

\* the permission set the handler resolved for userId, read back from the state the
\* handler leaves: the cache entry it found or wrote, or the store when there is no cache
resolvedSet(userId) ==
    IF cache = "in-memory"
    THEN cacheEngine[userPermissionsKey(userId)]
    ELSE AccessGroupsManager_getUserPermissions(userId)

\* the request was matched, identified and its permissions resolved (no 500)
resolvedRequest ==
    /\ last.op = "authMiddleware"
    /\ matchesRoute(lastRequest)
    /\ validIdentity(lastRequest)
    /\ last.ret.status # 500

\* C1: a matched request with a valid identity whose resolved set lacks super_admin
\* reaches next() exactly when the set shares a code with the route's permissions, and
\* is answered 403 without next() otherwise (so always 403 for an empty list).
C1_AnyRequiredPermission ==
    resolvedRequest =>
        LET out == last.ret
            resolved == resolvedSet(decodedUserId(lastRequest.authorization.token))
            required == route_access[out.route].permissions
        IN "super_admin" \notin resolved =>
              /\ out.userPermissions = resolved
              /\ (out.nextCalls = 1) <=> (resolved \cap required # {})
              /\ out.nextCalls = 1 => out.status = 0
              /\ out.nextCalls # 1 => (out.nextCalls = 0 /\ out.status = 403)

\* a user holding one of the two required codes alone was let through
C1_Witness ==
    /\ resolvedRequest
    /\ last.ret.route = 1
    /\ last.ret.userPermissions = {"update:users"}
    /\ last.ret.nextCalls = 1

\* the request of the step that has just been taken fails authentication on a matched route
unauthenticated(req) ==
    /\ matchesRoute(req)
    /\ ~validIdentity(req)

\* C2: on a matched route, a missing or non-Bearer header, a token that fails
\* verification or claims without the user id give 401, no next(), and neither the
\* cache nor the store is consulted (the cache is left as it was).
C2_Unauthenticated401 ==
    [][ (last'.op = "authMiddleware" /\ unauthenticated(last'.args[1])) =>
            /\ last'.ret.status = 401
            /\ last'.ret.nextCalls = 0
            /\ ~last'.ret.consulted
            /\ last'.ret.userPermissions = {}
            /\ cacheEngine' = cacheEngine ]_vars

\* a non-Bearer header carrying the token of a super_admin user was answered 401
C2_Witness ==
    /\ last.op = "authMiddleware"
    /\ unauthenticated(lastRequest)
    /\ lastRequest.authorization = [scheme |-> "Basic", token |-> "u1"]
    /\ "super_admin" \in AccessGroupsManager_getUserPermissions(1)
    /\ last.ret.status = 401

\* C3: a matched request with a valid identity whose resolved set holds super_admin
\* reaches next() whatever the route requires, an empty list included.
C3_SuperAdminBypass ==
    resolvedRequest =>
        LET out == last.ret
            resolved == resolvedSet(decodedUserId(lastRequest.authorization.token))
        IN "super_admin" \in resolved =>
              /\ out.userPermissions = resolved
              /\ out.nextCalls = 1
              /\ out.status = 0

\* a super_admin holding nothing else passed the route whose list is empty
C3_Witness ==
    /\ resolvedRequest
    /\ last.ret.route = 3
    /\ last.ret.userPermissions = {"super_admin"}
    /\ last.ret.nextCalls = 1

\* C4: when no declared route matches path and method (a pattern matching the path
\* under another method included), next() is called, the Authorization header is not
\* read, no token is verified, no status is sent and the cache is not touched.
C4_UnmatchedPassThrough ==
    [][ (last'.op = "authMiddleware" /\ ~matchesRoute(last'.args[1])) =>
            /\ last'.ret.nextCalls = 1
            /\ last'.ret.status = 0
            /\ ~last'.ret.readHeader
            /\ ~last'.ret.verified
            /\ ~last'.ret.consulted
            /\ cacheEngine' = cacheEngine ]_vars

\* a POST without credentials to a path that a GET route declares passed through
C4_Witness ==
    /\ last.op = "authMiddleware"
    /\ lastRequest.path = <<"api", "users", "42">>
    /\ lastRequest.method = "POST"
    /\ lastRequest.authorization = NoAuthorization
    /\ last.ret.nextCalls = 1

(***************************************************************************)
(* Properties of the flat permission set and its cache.                    *)
(***************************************************************************)
\* the codes of the permissions linked to an active group userId is a member of
unionOfGroupPermissions(userId) ==
    { p.code : p \in { q \in Permission_findAll :
                         \E g \in AccessGroup :
                            /\ <<g.id, q.id>> \in AccessGroupPermission
                            /\ <<g.id, userId>> \in AccessGroupUser } }

\* C5: with the cache disabled getUserPermissions(U) is the set of codes linked to the
\* active groups U is a member of, whatever the calls made before; empty without membership.
C5_UnionOfGroups ==
    /\ \A u \in User : getUserPermissionsValue(u) = unionOfGroupPermissions(u)
    /\ last.op = "getUserPermissions" => last.ret = unionOfGroupPermissions(last.args[1])

\* a member of two groups holding the same code got it once, with the other code
C5_Witness ==
    /\ last.op = "getUserPermissions"
    /\ accessGroupIdsOf(last.args[1]) = {1, 2}
    /\ <<1, 2>> \in AccessGroupPermission /\ <<2, 2>> \in AccessGroupPermission
    /\ last.ret = {"super_admin", "read:users"}

\* C6: with the in-memory cache getUserPermissions returns what it returns without
\* a cache, that is what the store holds when it is called.
C6_CacheTransparent ==
    last.op = "getUserPermissions" =>
        last.ret = AccessGroupsManager_getUserPermissions(last.args[1])

\* the codes group accessGroupId holds
codesOfGroup(accessGroupId) ==
    { codeOf(l[2]) : l \in { m \in AccessGroupPermission : m[1] = accessGroupId } }

\* C7: after addUserToAccessGroup(G, U) the codes of G are in getUserPermissions(U), and
\* after removeUserFromAccessGroup(G, U) the codes U held through G alone are not.
C7_MembershipChangeSeen ==
    /\ (last.op = "addUserToAccessGroup" /\ last.ok) =>
          codesOfGroup(last.args[1]) \subseteq getUserPermissionsValue(last.args[2])
    /\ (last.op = "removeUserFromAccessGroup" /\ last.ret = TRUE) =>
          \A c \in codesOfGroup(last.args[1]) :
             c \notin AccessGroupsManager_getUserPermissions(last.args[2]) =>
                c \notin getUserPermissionsValue(last.args[2])

tokenOf(userId) == IF userId = 1 THEN "u1" ELSE "u2"

\* the request of userId to route i of route_access
requestOf(userId, i) ==
    Request(route_access[i].path, route_access[i].method,
            [scheme |-> "Bearer", token |-> tokenOf(userId)])

\* the members of the group of the removal that hold the removed code no more
revokedMembers ==
    { u \in getUsersInAccessGroup(last.args[1]) :
        /\ codeOf(last.args[2]) \notin AccessGroupsManager_getUserPermissions(u)
        /\ "super_admin" \notin AccessGroupsManager_getUserPermissions(u) }

\* C8: once removePermissionFromAccessGroup(G, P) has completed, the request of a
\* member of G that is given a route requiring P's code alone is answered 403, unless
\* the member holds the code through another group or holds super_admin.
C8_RevokedIsForbidden ==
    last.op = "removePermissionFromAccessGroup" =>
        \A u \in revokedMembers :
           \A i \in 1 .. Len(route_access) :
              (/\ route_access[i].permissions = { codeOf(last.args[2]) }
               /\ getRouteAccess(requestOf(u, i).path, requestOf(u, i).method) = i) =>
                 /\ authMiddleware(requestOf(u, i), FALSE).status = 403
                 /\ authMiddleware(requestOf(u, i), FALSE).nextCalls = 0

\* a link was removed from a group that has a member left without the code
C8_Witness ==
    /\ last.op = "removePermissionFromAccessGroup"
    /\ last.ret = TRUE
    /\ last.args[2] = 2
    /\ revokedMembers # {}
    /\ \A u \in revokedMembers : authMiddleware(requestOf(u, 2), FALSE).status = 403

(***************************************************************************)
(* Properties of the resource-level permissions and their cache.           *)
(***************************************************************************)
\* the resource ids granted to a group of user_id for permission_id under the
\* declaration of resource_name for permission_id
grantedResourceIds(resource_name, permission_id, user_id) ==
    { r.resource_id : r \in { q \in ResourceLevelPermission :
                                /\ q.permission_id = permission_id
                                /\ \E t \in resourceTypeFor(permission_id, resource_name) :
                                      q.resource_type_id = t.id
                                /\ q.access_group_id \in accessGroupIdsOf(user_id) } }

\* C9: once a grant of resource ids to G and then its revoke have completed,
\* getResourceLevelPermissions returns none of the revoked ids to a member of G (who is
\* granted them through no other group), whatever was cached before.
C9_RevokedResourceNotReturned ==
    (last.op = "removeResourceLevelPermission" /\ last.ok /\ last.ret > 0) =>
        \A u \in getUsersInAccessGroup(last.args[4]) :
           \A r \in Range(last.args[2]) :
              r \notin grantedResourceIds(last.args[3], last.args[1], u) =>
                 \A value \in getResourceLevelPermissionsValues(last.args[3], last.args[1], u) :
                    r \notin value

\* C10: for a type name declared for the permission, the manager's
\* getResourceLevelPermissions returns exactly the resource ids granted to the user's
\* groups under that permission's declaration, also when another permission declares
\* the same name.
C10_ExactlyGrantedIds ==
    (/\ last.op = "getResourceLevelPermissions"
     /\ resourceTypeFor(last.args[2], last.args[1]) # {}) =>
        /\ last.ok
        /\ last.ret = grantedResourceIds(last.args[1], last.args[2], last.args[3])

\* C11: hasResourceAccess on a non-empty list completes exactly when
\* getResourceLevelPermissions does, and it returns true if and only if every element of
\* the list is in the array getResourceLevelPermissions returns on the same store.
C11_EveryIdAccessible ==
    (last.op = "hasResourceAccess" /\ last.args[3] # << >>) =>
        LET values == managerGetResourceLevelPermissions(last.args[1], last.args[2], last.args[4])
        IN /\ last.ok <=> values # {}
           /\ last.ok => \E accessibleResources \in values :
                            last.ret = (Range(last.args[3]) \subseteq accessibleResources)

\* a check of two ids was refused although one of them is granted
C11_Witness ==
    /\ last.op = "hasResourceAccess" /\ last.ok /\ last.ret = FALSE
    /\ Len(last.args[3]) = 2
    /\ \E accessibleResources \in
             managerGetResourceLevelPermissions(last.args[1], last.args[2], last.args[4]) :
          Range(last.args[3]) \cap accessibleResources # {}

\* C12: for a user whose permission set contains super_admin, hasResourceAccess returns
\* true for every type, permission and non-empty list, with or without grants.
C12_SuperAdminHasResourceAccess ==
    (/\ last.op = "hasResourceAccess" /\ last.args[3] # << >>
     /\ "super_admin" \in AccessGroupsManager_getUserPermissions(last.args[4])) =>
        (last.ok /\ last.ret = TRUE)

\* C13: hasPermission returns true if and only if the set its getUserPermissions
\* returned contains super_admin or at least one of the given codes, a single string
\* counting as a list of one code; it returns false when getUserPermissions throws.
C13_HasPermissionAny ==
    last.op = "hasPermission" =>
        LET userId == last.args[1]
            permissions == last.args[2]
            codes == IF permissions.isArray THEN Range(permissions.value) ELSE { permissions.value }
        IN /\ ~last.ret.threw => last.ret.userPermissions = getUserPermissionsValue(userId)
           /\ last.ret.result <=>
                 /\ ~last.ret.threw
                 /\ \/ "super_admin" \in last.ret.userPermissions
                    \/ codes \cap last.ret.userPermissions # {}

\* a list of two codes was accepted for a user holding one of them and not super_admin
C13_Witness ==
    /\ last.op = "hasPermission" /\ last.ret.result
    /\ last.args[2].isArray /\ Len(last.args[2].value) = 2
    /\ "super_admin" \notin last.ret.userPermissions
    /\ ~(Range(last.args[2].value) \subseteq last.ret.userPermissions)

(***************************************************************************)
(* Properties of the route matching.                                       *)
(***************************************************************************)
\* the pattern and the path have the same number of segments, every literal segment
\* is equal and every ':param' segment stands against a non-empty segment
segmentwiseEqual(routePath, path) ==
    /\ Len(routePath) = Len(path)
    /\ \A i \in 1 .. Len(routePath) :
          IF routePath[i] \in ParamSegments THEN path[i] # "" ELSE routePath[i] = path[i]

\* C14: a request is given a route if and only if some declared pattern equals the
\* path segment by segment (':param' against one non-empty segment, literals equal,
\* anchored at both ends) and the method is the declared one; the route it is given
\* is such a route.
C14_SegmentwiseMatch ==
    last.op = "authMiddleware" =>
        LET req == lastRequest
            route == last.ret.route
        IN /\ route # 0 => /\ segmentwiseEqual(route_access[route].path, req.path)
                           /\ route_access[route].method = toUpperCase(req.method)
           /\ route = 0 => \A i \in 1 .. Len(route_access) :
                              ~(/\ segmentwiseEqual(route_access[i].path, req.path)
                                /\ route_access[i].method = toUpperCase(req.method))

\* C15: a request whose method differs from the declared method of a route matching
\* its path only in letter case, in either direction, is given a route.
C15_MethodCaseInsensitive ==
    last.op = "authMiddleware" =>
        ((\E i \in 1 .. Len(route_access) :
             /\ regexTest(route_access[i].path, lastRequest.path)
             /\ toUpperCase(route_access[i].method) = toUpperCase(lastRequest.method))
         => last.ret.route # 0)

\* C16: the route given to a request is the first declared one among those matching its
\* path and method, and for a valid identity without super_admin the permission list of
\* that route alone decides between next() and 403.
C16_FirstDeclaredWins ==
    (last.op = "authMiddleware" /\ last.ret.route # 0) =>
        LET req == lastRequest
            route == last.ret.route
        IN /\ \A i \in 1 .. Len(route_access) :
                 (/\ regexTest(route_access[i].path, req.path)
                  /\ route_access[i].method = toUpperCase(req.method)) => route <= i
           /\ (validIdentity(req) /\ "super_admin" \notin last.ret.userPermissions) =>
                 /\ last.ret.nextCalls = 1 <=>
                       route_access[route].permissions \cap last.ret.userPermissions # {}
                 /\ last.ret.nextCalls = 0 <=> last.ret.status = 403

\* GET /users/active by a user holding the code of the later, more specific route only
\* was refused by the permission list of '/users/:id'
C16_Witness ==
    /\ last.op = "authMiddleware"
    /\ lastRequest.path = <<"users", "active">>
    /\ last.ret.route # 0
    /\ route_access[last.ret.route].path = <<"users", ":id">>
    /\ last.ret.userPermissions = {"update:users"}
    /\ last.ret.status = 403

(***************************************************************************)
(* Properties of the deletion of groups and of the bulk operations.        *)
(***************************************************************************)
\* the group has a user-link, a permission-link or a resource-level grant
hasAssignments(accessGroupId) ==
    \/ \E l \in AccessGroupUser : l[1] = accessGroupId
    \/ \E l \in AccessGroupPermission : l[1] = accessGroupId
    \/ \E r \in ResourceLevelPermission : r.access_group_id = accessGroupId

\* C17: deleteAccessGroup of an active group with a user-link, a permission-link or a
\* resource-level grant raises an error and leaves the group active; for a group with
\* none of the three it returns true and the group is no longer found by id or name.
C17_DeletionGuard ==
    [][ (last'.op = "deleteAccessGroup" /\ AccessGroup_findByPk(last'.args[1]) # {}) =>
           LET accessGroupId == last'.args[1]
               accessGroup == CHOOSE g \in AccessGroup : g.id = accessGroupId
           IN IF hasAssignments(accessGroupId)
              THEN ~last'.ok /\ UNCHANGED storeVars
              ELSE /\ last'.ok /\ last'.ret = TRUE
                   /\ ~\E g \in AccessGroup' : g.id = accessGroupId \/ g.name = accessGroup.name
                   /\ UNCHANGED <<AccessGroupUser, AccessGroupPermission, ResourceLevelPermission>>
      ]_vars

\* the deletion of a group whose only assignment is a resource-level grant was refused
C17_Witness ==
    /\ last.op = "deleteAccessGroup" /\ ~last.ok
    /\ AccessGroup_findByPk(last.args[1]) # {}
    /\ ~\E l \in AccessGroupUser : l[1] = last.args[1]
    /\ ~\E l \in AccessGroupPermission : l[1] = last.args[1]
    /\ \E r \in ResourceLevelPermission : r.access_group_id = last.args[1]

\* the rows of the five tables (the counters of the ids are not rows)
tables ==
    <<AccessGroup, AccessGroupUser, AccessGroupPermission, ResourceLevelPermissionType,
      ResourceLevelPermission>>

\* C18: when createAccessGroupWithAssignments raises an error, at whatever step, the
\* store holds the same groups, user-links, permission-links, type declarations and
\* grants as before the call.
C18_CreateRollsBack ==
    [][ (last'.op = "createAccessGroupWithAssignments" /\ ~last'.ok) => UNCHANGED tables ]_vars

\* a creation failed at the second entry of permissions, after the group, its
\* user-link and its first permission-link had been written in the transaction
C18_Witness ==
    /\ last.op = "createAccessGroupWithAssignments" /\ ~last.ok
    /\ last.args[1].user_ids # << >>
    /\ Len(last.args[1].permissions) = 2
    /\ AccessGroup_findByName(trim(last.args[1].name)) = {}

\* C19: when updateAccessGroupWithAssignments raises an error, at whatever step, also
\* after the deletions of the replace mode and also when the store fails at or after
\* the commit, the group's name, links, declarations and grants are as before the call.
C19_UpdateRollsBack ==
    [][ (last'.op = "updateAccessGroupWithAssignments" /\ ~last'.ok) => UNCHANGED tables ]_vars

\* the members the rows links give the group
userLinksOf(links, accessGroupId) == { l[2] : l \in { m \in links : m[1] = accessGroupId } }

\* the permissions the rows links give the group
permissionLinksOf(links, accessGroupId) == { l[2] : l \in { m \in links : m[1] = accessGroupId } }

\* the name of the declaration with that id ("" when it is gone)
typeName(types, id) ==
    IF \E t \in types : t.id = id THEN (CHOOSE t \in types : t.id = id).name ELSE ""

\* the grants of the group as <<permission_id, type name, resource_id>>
grantsOf(grants, types, accessGroupId) ==
    { <<r.permission_id, typeName(types, r.resource_type_id), r.resource_id>> :
         r \in { q \in grants : q.access_group_id = accessGroupId } }

\* the permission ids a permissions argument supplies
suppliedPermissions(permissions) == { permissions[i].permission_id : i \in 1 .. Len(permissions) }

\* the grants a permissions argument supplies
suppliedGrants(permissions) ==
    UNION { UNION { { <<permissions[i].permission_id, e.resource_name, r>> : r \in Range(e.resource_ids) } :
                      e \in Range(permissions[i].resource_level_permissions) } :
            i \in 1 .. Len(permissions) }

\* the call that has just returned is a successful update in replace mode
replaced == /\ last'.op = "updateAccessGroupWithAssignments" /\ last'.ok
            /\ last'.args[2].replace_assignments

\* C20 as stated: after a successful update in replace mode the user-links, the
\* permission-links and the grants of the group are exactly the supplied ones, an
\* omitted user_ids or permissions supplying none.
C20_ExactlySupplied ==
    [][ replaced =>
          LET accessGroupId == last'.args[1]
              updateData == last'.args[2]
          IN /\ userLinksOf(AccessGroupUser', accessGroupId) =
                   IF updateData.user_ids.defined THEN Range(updateData.user_ids.value) ELSE {}
             /\ permissionLinksOf(AccessGroupPermission', accessGroupId) =
                   IF updateData.permissions.defined
                   THEN suppliedPermissions(updateData.permissions.value) ELSE {}
             /\ grantsOf(ResourceLevelPermission', ResourceLevelPermissionType', accessGroupId) =
                   IF updateData.permissions.defined
                   THEN suppliedGrants(updateData.permissions.value) ELSE {}
      ]_vars

\* C20 amended: after a successful update in replace mode the user-links are exactly
\* the supplied user_ids when user_ids is supplied and unchanged when it is omitted;
\* the permission-links and the grants are exactly the supplied ones when permissions
\* is supplied and unchanged when it is omitted.
C20_ExactlySuppliedWhereSupplied ==
    [][ replaced =>
          LET accessGroupId == last'.args[1]
              updateData == last'.args[2]
          IN /\ userLinksOf(AccessGroupUser', accessGroupId) =
                   IF updateData.user_ids.defined THEN Range(updateData.user_ids.value)
                   ELSE userLinksOf(AccessGroupUser, accessGroupId)
             /\ permissionLinksOf(AccessGroupPermission', accessGroupId) =
                   IF updateData.permissions.defined
                   THEN suppliedPermissions(updateData.permissions.value)
                   ELSE permissionLinksOf(AccessGroupPermission, accessGroupId)
             /\ grantsOf(ResourceLevelPermission', ResourceLevelPermissionType', accessGroupId) =
                   IF updateData.permissions.defined
                   THEN suppliedGrants(updateData.permissions.value)
                   ELSE grantsOf(ResourceLevelPermission, ResourceLevelPermissionType, accessGroupId)
      ]_vars

\* a successful update in replace mode that supplied user_ids and omitted permissions
\* of a group that keeps a permission-link
C20_Witness ==
    /\ last.op = "updateAccessGroupWithAssignments" /\ last.ok
    /\ last.args[2].replace_assignments
    /\ last.args[2].user_ids.defined /\ ~last.args[2].permissions.defined
    /\ userLinksOf(AccessGroupUser, last.args[1]) = Range(last.args[2].user_ids.value)
    /\ permissionLinksOf(AccessGroupPermission, last.args[1]) # {}

\* the call that has just returned is a successful update in additive mode
additive == /\ last'.op = "updateAccessGroupWithAssignments" /\ last'.ok
            /\ ~last'.args[2].replace_assignments

\* C21: after a successful update in additive mode every row of the three tables is
\* still there, the user-links, permission-links and grants of the group are the old
\* ones united with the supplied ones, and the summary counts the rows that are new.
C21_AdditiveUnites ==
    [][ additive =>
          LET accessGroupId == last'.args[1]
              updateData == last'.args[2]
              user_ids == IF updateData.user_ids.defined
                          THEN Range(updateData.user_ids.value) ELSE {}
              permissions == IF updateData.permissions.defined
                             THEN updateData.permissions.value ELSE << >>
          IN /\ AccessGroupUser \subseteq AccessGroupUser'
             /\ AccessGroupPermission \subseteq AccessGroupPermission'
             /\ ResourceLevelPermission \subseteq ResourceLevelPermission'
             /\ userLinksOf(AccessGroupUser', accessGroupId) =
                   userLinksOf(AccessGroupUser, accessGroupId) \cup user_ids
             /\ permissionLinksOf(AccessGroupPermission', accessGroupId) =
                   permissionLinksOf(AccessGroupPermission, accessGroupId)
                      \cup suppliedPermissions(permissions)
             /\ grantsOf(ResourceLevelPermission', ResourceLevelPermissionType', accessGroupId) =
                   grantsOf(ResourceLevelPermission, ResourceLevelPermissionType, accessGroupId)
                      \cup suppliedGrants(permissions)
             /\ last'.ret.users_added =
                   Cardinality(user_ids \ userLinksOf(AccessGroupUser, accessGroupId))
             /\ last'.ret.permissions_added =
                   Cardinality(suppliedPermissions(permissions)
                                  \ permissionLinksOf(AccessGroupPermission, accessGroupId))
             /\ last'.ret.resource_permissions_added =
                   Cardinality(suppliedGrants(permissions)
                                  \ grantsOf(ResourceLevelPermission, ResourceLevelPermissionType,
                                             accessGroupId))
      ]_vars

\* an additive update supplied a grant the group had and one it had not: one row was
\* counted, and the group keeps a member and a permission the update did not name
C21_Witness ==
    /\ last.op = "updateAccessGroupWithAssignments" /\ last.ok
    /\ ~last.args[2].replace_assignments
    /\ last.args[2].permissions.defined
    /\ Cardinality(suppliedGrants(last.args[2].permissions.value)) = 2
    /\ last.ret.resource_permissions_added = 1
    /\ last.ret.permissions_added = 0
    /\ userLinksOf(AccessGroupUser, last.args[1]) # {}

(***************************************************************************)
(* Properties of the names of the groups and the codes of the permissions. *)
(***************************************************************************)
\* the call that has just returned creates or renames a group
namingCall ==
    last'.op \in { "createAccessGroup", "updateAccessGroup",
                   "createAccessGroupWithAssignments", "updateAccessGroupWithAssignments" }

\* the group the call that has just returned renames (0: it creates one)
renamedId ==
    IF last'.op \in { "updateAccessGroup", "updateAccessGroupWithAssignments" }
    THEN last'.args[1] ELSE 0

\* the name the call that has just returned asks for ("" when it asks for none)
requestedName ==
    CASE last'.op = "createAccessGroup" -> trim(last'.args[1])
      [] last'.op = "updateAccessGroup" -> trim(last'.args[2])
      [] last'.op = "createAccessGroupWithAssignments" -> trim(last'.args[1].name)
      [] last'.op = "updateAccessGroupWithAssignments" ->
            IF last'.args[2].name.defined THEN trim(last'.args[2].name.value) ELSE ""

\* the call names an existing group where it renames one, and it asks for a name
wellFormedNaming ==
    /\ requestedName # ""
    /\ renamedId # 0 => \E g \in AccessGroup : g.id = renamedId

\* another active group had the requested name when the call was made
nameTaken == \E g \in AccessGroup : g.name = requestedName /\ g.id # renamedId

\* the call that has just returned raised the error err itself
raised(err) == ~last'.ok /\ last'.ret = err

\* C22: a creation or a rename of a group raises DuplicateAccessGroupNameError, carrying
\* the trimmed name, exactly when another active group has the trimmed name (the
\* renamed group itself does not count), and createPermission raises
\* DuplicatePermissionCodeError exactly when a permission has the trimmed code; the
\* store is then as before, and the error is the structured one, not a generic Error.
C22_DuplicateErrors ==
    [][ /\ (namingCall /\ wellFormedNaming) =>
              (raised(DuplicateAccessGroupNameError(requestedName)) <=> nameTaken)
        /\ namingCall =>
              /\ (~last'.ok /\ last'.ret.name = "DuplicateAccessGroupNameError") =>
                    /\ wellFormedNaming /\ nameTaken
                    /\ last'.ret = DuplicateAccessGroupNameError(requestedName)
                    /\ UNCHANGED <<storeVars, createdPermission>>
        /\ (last'.op = "createPermission" /\ last'.args[1].code # ""
                                          /\ last'.args[1].name # "") =>
              LET trimmedCode == trim(last'.args[1].code)
                  codeTaken == \E p \in Permission_findAll : p.code = trimmedCode
              IN /\ raised(DuplicatePermissionCodeError(trimmedCode)) <=> codeTaken
                 /\ codeTaken => UNCHANGED <<storeVars, createdPermission>>
                 /\ ~codeTaken => last'.ok
      ]_vars

\* a rename to the name of another group, given with blanks around it, was refused
\* with the trimmed name in the error
C22_Witness ==
    /\ last.op = "updateAccessGroup" /\ ~last.ok
    /\ last.args[2] = " Editors "
    /\ last.ret = DuplicateAccessGroupNameError("Editors")
    /\ \E g \in AccessGroup : g.id # last.args[1] /\ g.name = "Editors"

\* C23: in every reachable state, whatever the interleaving of the creations, the
\* renames and setupInitialData, no two active groups have the same name and no two
\* permissions have the same code.
C23_NamesAndCodesUnique ==
    /\ \A g1, g2 \in AccessGroup : g1.name = g2.name => g1 = g2
    /\ \A p1, p2 \in Permission_findAll : p1.code = p2.code => p1 = p2

(***************************************************************************)
(* Properties of the grants, the revokes and the declarations.             *)
(***************************************************************************)
\* resource_name is declared for permission_id (an active declaration row exists)
declared(permission_id, resource_name) ==
    \E t \in ResourceLevelPermissionType :
        t.permission_id = permission_id /\ t.name = resource_name

\* C24: addResourceLevelPermission(P, ids, T, G) with T not declared for P raises an
\* error and leaves the grants and the declarations as they were, also when T is
\* declared for another permission; no addResourceLevelPermission changes a declaration.
C24_GrantNeedsDeclaration ==
    [][ last'.op = "addResourceLevelPermission" =>
          /\ UNCHANGED <<ResourceLevelPermissionType, nextResourceTypeId>>
          /\ ~declared(last'.args[1], last'.args[3]) =>
                (~last'.ok /\ UNCHANGED ResourceLevelPermission)
      ]_vars

\* a grant was refused for a permission without the declaration while the type name
\* is declared for another permission
C24_Witness ==
    /\ last.op = "addResourceLevelPermission" /\ ~last.ok
    /\ last.args[2] # << >>
    /\ ~declared(last.args[1], last.args[3])
    /\ \E t \in ResourceLevelPermissionType : t.name = last.args[3]
    /\ AccessGroup_findByPk(last.args[4]) # {}

\* the operations that create a link, a declaration or grants when they are missing
linkOperations ==
    { "assignPermissionToAccessGroup", "addUserToAccessGroup",
      "addResourceTypeForPermission", "addResourceLevelPermission" }

\* C25: a link operation called again with the arguments of the successful call that
\* has just returned raises no error, returns what the first call returned and leaves
\* every table as the first call left it.
C25_LinkOperationsIdempotent ==
    [][ (/\ last.op \in linkOperations /\ last.ok
         /\ last'.op = last.op /\ last'.args = last.args) =>
            /\ last'.ok
            /\ last'.ret = last.ret
            /\ UNCHANGED storeVars
      ]_vars

\* grants were made to a group that has a permission-link and a member, all of which
\* the repeated calls found in place
C25_Witness ==
    /\ last.op = "addResourceLevelPermission" /\ last.ok
    /\ \A r \in last.ret :
          \E q \in ResourceLevelPermission :
             /\ q.resource_id = r /\ q.access_group_id = last.args[4]
             /\ q.permission_id = last.args[1]
    /\ \E l \in AccessGroupPermission : l[1] = last.args[4]
    /\ \E l \in AccessGroupUser : l[1] = last.args[4]

\* C26: removeResourceTypeForPermission(P, T) returns true exactly when T was declared
\* for P, removes that declaration and nothing else: the grants (those of the removed
\* declaration too), the groups, the links and the other declarations stay.
C26_RemoveDeclarationOnly ==
    [][ last'.op = "removeResourceTypeForPermission" =>
          /\ last'.ok
          /\ last'.ret = declared(last'.args[1], last'.args[2])
          /\ ResourceLevelPermissionType' =
                { t \in ResourceLevelPermissionType :
                    ~(t.permission_id = last'.args[1] /\ t.name = last'.args[2]) }
          /\ UNCHANGED <<AccessGroup, AccessGroupPermission, AccessGroupUser,
                         ResourceLevelPermission>>
      ]_vars

\* a declaration was removed while a grant that references it stays, next to the
\* declaration of the other permission
C26_Witness ==
    /\ last.op = "removeResourceTypeForPermission" /\ last.ok /\ last.ret = TRUE
    /\ ~declared(last.args[1], last.args[2])
    /\ \E q \in ResourceLevelPermission :
          /\ q.permission_id = last.args[1]
          /\ \A t \in ResourceLevelPermissionType : t.id # q.resource_type_id
    /\ \E t \in ResourceLevelPermissionType : t.permission_id # last.args[1]

\* the active grants (P, r, declaration of T for P, G) with r in ids
matching(permission_id, resource_ids, resource_name, access_group_id) ==
    { q \in ResourceLevelPermission :
        /\ q.permission_id = permission_id
        /\ q.access_group_id = access_group_id
        /\ \E i \in 1 .. Len(resource_ids) : resource_ids[i] = q.resource_id
        /\ \E t \in ResourceLevelPermissionType :
              /\ t.permission_id = permission_id /\ t.name = resource_name
              /\ t.id = q.resource_type_id }

\* C27: removeResourceLevelPermission(P, ids, T, G) deletes the active grants
\* (P, r, declaration of T for P, G) with r in ids and no other row, and what it
\* returns is the number of grants it deleted.
C27_RevokeDeletesMatching ==
    [][ last'.op = "removeResourceLevelPermission" =>
          /\ ResourceLevelPermission' =
                ResourceLevelPermission \
                   matching(last'.args[1], last'.args[2], last'.args[3], last'.args[4])
          /\ last'.ok =>
                last'.ret = Cardinality(ResourceLevelPermission \ ResourceLevelPermission')
          /\ (last'.args[2] # << >> /\ declared(last'.args[1], last'.args[3])) => last'.ok
          /\ UNCHANGED <<AccessGroup, AccessGroupPermission, AccessGroupUser,
                         ResourceLevelPermissionType>>
      ]_vars

\* one of two grants of a group was revoked while the other group, the other
\* permission and the other type keep theirs
C27_Witness ==
    /\ last.op = "removeResourceLevelPermission" /\ last.ok /\ last.ret = 1
    /\ \E q \in ResourceLevelPermission :
          q.access_group_id = last.args[4] /\ q.permission_id = last.args[1] /\ q.resource_id = 6
    /\ \E q \in ResourceLevelPermission :
          q.access_group_id # last.args[4] /\ q.resource_id = 5
    /\ \E q \in ResourceLevelPermission :
          q.access_group_id = last.args[4] /\ q.permission_id # last.args[1] /\ q.resource_id = 5

(***************************************************************************)
(* Properties of the views of the grants.                                  *)
(***************************************************************************)
\* the resource ids of seq are strictly ascending
ascending(seq) == \A i \in 1 .. Len(seq) - 1 : seq[i] < seq[i + 1]

\* the active grants of permission_id to access_group_id
grantsToGroup(access_group_id, permission_id) ==
    { q \in ResourceLevelPermission :
        q.access_group_id = access_group_id /\ q.permission_id = permission_id }

\* C28: getAccessGroupResourceLevelPermissions(G) without filters returns one entry for
\* every permission assigned to G, with resources {} for a permission without grants
\* and, per type name, the granted resource ids ascending for one with grants; the
\* entries are ordered by permission id.
C28_ViewListsAssignedPermissions ==
    (/\ last.op = "getAccessGroupResourceLevelPermissions"
     /\ last.args[2] = "" /\ last.args[3] = 0 /\ last.ok) =>
        LET entries == last.ret.permissions
        IN /\ \A l \in AccessGroupPermission :
                 l[1] = last.args[1] =>
                    /\ Cardinality({ i \in DOMAIN entries : entries[i].id = l[2] }) = 1
                    /\ \A i \in DOMAIN entries :
                          entries[i].id = l[2] =>
                             /\ grantsToGroup(l[1], l[2]) = {} => DOMAIN entries[i].resources = {}
                             /\ \A n \in DOMAIN entries[i].resources :
                                   /\ ascending(entries[i].resources[n])
                                   /\ Range(entries[i].resources[n]) =
                                         { q.resource_id :
                                             q \in { r \in grantsToGroup(l[1], l[2]) :
                                                       resourceTypeName(r) = n } }
           /\ \A i \in 1 .. Len(entries) - 1 : entries[i].id < entries[i + 1].id

\* C29: getResourceLevelPermissions(T, P, U) and hasResourceAccess(T, P, ids, U) raise
\* an error whenever T has never been declared for P, also when T is declared for
\* another permission only (no declaration is ever removed in SpecLookup, so a
\* declaration that is missing was never made).
C29_LookupNeedsDeclaration ==
    (/\ last.op \in { "getResourceLevelPermissions", "hasResourceAccess" }
     /\ ~declared(last.args[2], last.args[1])) => ~last.ok

(***************************************************************************)
(* Properties of what the middleware writes on the request.                *)
(***************************************************************************)
\* the handler let the request of a matched route through
allowedOnRoute(out) == out.route # 0 /\ out.status = 0 /\ out.nextCalls = 1

\* C30: the middleware sets req.userId and req.userPermissions, to the user id of the
\* token and to the permissions resolved for it, on the two paths that let the request
\* of a matched route through (super_admin, or one of the route's permissions), and on
\* no other path: not on an unmatched route, not with a 401, a 403 or a 500.
C30_AttachedOnAllowOnly ==
    last.op = "authMiddleware" =>
       LET out == last.ret
           req == last.args[1]
       IN IF allowedOnRoute(out)
          THEN /\ out.reqUserId # 0
               /\ out.reqUserId = decodedUserId(req.authorization.token)
               /\ out.reqUserPermissions = getUserPermissionsValue(out.reqUserId)
               /\ \/ "super_admin" \in out.reqUserPermissions
                  \/ route_access[out.route].permissions \cap out.reqUserPermissions # {}
          ELSE /\ out.reqUserId = 0
               /\ out.reqUserPermissions = {}
               /\ \/ out.route = 0 /\ out.nextCalls = 1 /\ out.status = 0
                  \/ out.status \in { 401, 403, 500 } /\ out.nextCalls = 0

\* a member without super_admin was let through with its permissions on the request
C30_Witness ==
    /\ last.op = "authMiddleware" /\ allowedOnRoute(last.ret)
    /\ last.ret.reqUserId = 1
    /\ last.ret.reqUserPermissions # {}
    /\ "super_admin" \notin last.ret.reqUserPermissions

(***************************************************************************)
(* Properties of the cache around the bulk update and the calls in flight. *)
(***************************************************************************)
\* the users with an active link to access_group_id
membersOf(access_group_id) == { u \in User : <<access_group_id, u>> \in AccessGroupUser }

\* C31: with cache 'in-memory', when updateAccessGroupWithAssignments(G, data) has
\* succeeded in replace mode, the cache holds no user_permissions entry for any user
\* that was a member of G before the call (those the call removed too) nor for any
\* user of data.user_ids: their next getUserPermissions reads the store.
C31_BulkUpdateClearsMembers ==
    [][ (/\ last'.op = "updateAccessGroupWithAssignments" /\ last'.ok
         /\ last'.args[2].replace_assignments
         /\ cache = "in-memory") =>
            \A u \in membersOf(last'.args[1]) \cup
                      (IF last'.args[2].user_ids.defined
                       THEN Range(last'.args[2].user_ids.value) ELSE {}) :
               ~cache_has(cacheEngine', userPermissionsKey(u))
      ]_vars

\* a replace-mode update with user_ids [1] has succeeded; user 2 is no member of the
\* group and the cache holds an entry for neither user
C31_Witness ==
    /\ last.op = "updateAccessGroupWithAssignments" /\ last.ok
    /\ last.args[2].replace_assignments
    /\ last.args[2].user_ids = Defined(<<1>>)
    /\ membersOf(last.args[1]) = { 1 }
    /\ cache = "in-memory"
    /\ ~cache_has(cacheEngine, userPermissionsKey(1))
    /\ ~cache_has(cacheEngine, userPermissionsKey(2))

\* C32: when a revoking call (removePermissionFromAccessGroup, or
\* updateAccessGroupWithAssignments in replace mode) and the reads of an affected user
\* that were in flight with it have all completed, the cache holds no user_permissions
\* entry that differs from the permissions the store gives that user.
C32_NoStaleEntryAfterRevoke ==
    (\A caller \in Callers : pending[caller] = Idle) =>
       \A u \in User :
          cache_has(cacheEngine, userPermissionsKey(u)) =>
             cacheEngine[userPermissionsKey(u)] = AccessGroupsManager_getUserPermissions(u)

(***************************************************************************)
(* Properties of the rows that reference a group.                          *)
(***************************************************************************)
\* C33: in every reachable state, whatever the interleaving of deleteAccessGroup with
\* the calls that link and grant, every active user-link, permission-link and grant
\* references a group that exists and is not deleted.
C33_LinksReferenceLiveGroups ==
    /\ \A l \in AccessGroupUser : AccessGroup_findByPk(l[1]) # {}
    /\ \A l \in AccessGroupPermission : AccessGroup_findByPk(l[1]) # {}
    /\ \A q \in ResourceLevelPermission : AccessGroup_findByPk(q.access_group_id) # {}

(***************************************************************************)
(* Properties of the checks of the arguments.                              *)
(***************************************************************************)
\* a permission entry without permission_id, or with resource ids that are no array
malformedEntries(permissions) ==
    \E i \in 1 .. Len(permissions) :
       \/ permissions[i].permission_id = 0
       \/ \E j \in 1 .. Len(permissions[i].resource_level_permissions) :
             ~permissions[i].resource_level_permissions[j].isArray

\* the call has a required argument that is missing or malformed
malformed(call) ==
    \/ /\ call.op = "createAccessGroupWithAssignments"
       /\ call.args[1].name = "" \/ malformedEntries(call.args[1].permissions)
    \/ /\ call.op = "updateAccessGroupWithAssignments"
       /\ call.args[2].permissions.defined
       /\ malformedEntries(call.args[2].permissions.value)
    \/ /\ call.op \in { "addResourceLevelPermission", "removeResourceLevelPermission" }
       /\ call.args[2] = << >>

\* C34: an administrative call whose required argument is missing or malformed fails
\* before it has issued a store read, a write or a transaction begin: no call that
\* was suspended at a query of the store ends with the failure of such a call.
C34_ValidationBeforeStore ==
    [][ \A caller \in Callers :
           (pending[caller] # Idle /\ pending'[caller] = Idle) =>
              ~(~last'.ok /\ malformed(last'))
      ]_vars

(***************************************************************************)
(* Properties of what a created group gives its users.                     *)
(***************************************************************************)
\* C35: after a successful createAccessGroupWithAssignments with user_ids S and a
\* permission entry of permission P with resource ids for type T, T is declared for P
\* (by one row), and for every user U of S getUserPermissions(U) contains the code of P
\* and getResourceLevelPermissions(T, P, U) returns every one of the resource ids.
C35_CreatedGroupGrantsItsUsers ==
    (last.op = "createAccessGroupWithAssignments" /\ last.ok) =>
        LET accessGroupData == last.args[1]
        IN \A i \in 1 .. Len(accessGroupData.permissions) :
              LET permissionData == accessGroupData.permissions[i]
                  P == permissionData.permission_id
                  entries == permissionData.resource_level_permissions
              IN /\ \A U \in Range(accessGroupData.user_ids) :
                       codeOf(P) \in getUserPermissionsValue(U)
                 /\ \A j \in 1 .. Len(entries) :
                       /\ Cardinality(resourceTypeFor(P, entries[j].resource_name)) = 1
                       /\ \A U \in Range(accessGroupData.user_ids) :
                             LET values == getResourceLevelPermissionsValues(
                                               entries[j].resource_name, P, U)
                             IN /\ values # {}
                                /\ \A value \in values :
                                      Range(entries[j].resource_ids) \subseteq value

(***************************************************************************)
(* Properties of the outcome of a request.                                 *)
(***************************************************************************)
\* next() was called once and no response sent, or one response was sent and next()
\* not called
oneOutcome(out) ==
    \/ out.nextCalls = 1 /\ out.status = 0
    \/ out.nextCalls = 0 /\ out.status \in { 401, 403, 500 }

\* C36: every request the middleware has handled ended in exactly one outcome, next()
\* called once or one 401, 403 or 500 response, and never both; and a request that
\* waits for the permissions of its user reaches its outcome once the store query
\* returns or fails.
C36_ExactlyOneOutcome ==
    /\ [](last.op = "authMiddleware" => oneOutcome(last.ret))
    /\ \A caller \in Callers :
          (pending[caller].op = "authMiddleware") ~> (pending[caller] = Idle)

\* a request that waited for the permissions of its user was refused with 403
C36_Witness ==
    /\ last.op = "authMiddleware" /\ last.ret.consulted
    /\ last.ret.status = 403 /\ last.ret.nextCalls = 0
    /\ \A caller \in Callers : pending[caller] = Idle

(***************************************************************************)
(* Properties of a failing lookup of the permissions.                      *)
(***************************************************************************)
\* the request matches a declared route and carries a token that verifies and names a user
identified(req) ==
    /\ getRouteAccess(req.path, req.method) # 0
    /\ startsWithBearer(req.authorization)
    /\ ~jwtVerifyThrows(req.authorization.token)
    /\ decodedUserId(req.authorization.token) # 0

\* the permissions of userId have to be read from the store
askedOfStore(userId) ==
    ~(cache = "in-memory" /\ cache_has(cacheEngine, userPermissionsKey(userId)))

\* C37: when the store query for the user's permissions fails for a request that
\* matched a declared route and carried a valid identity, the middleware answers 500,
\* does not call next(), leaves the cache without an entry for that user and attaches
\* nothing to the request; and hasPermission, when the query fails, returns false
\* instead of throwing, and leaves the cache as it is.
C37_FailedLookupDenies ==
    [][ /\ (/\ last'.op = "authMiddleware"
            /\ identified(last'.args[1])
            /\ askedOfStore(decodedUserId(last'.args[1].authorization.token))
            /\ handleRequest(last'.args[1], TRUE)) =>
               /\ last'.ret.status = 500
               /\ last'.ret.nextCalls = 0
               /\ last'.ret.reqUserId = 0 /\ last'.ret.reqUserPermissions = {}
               /\ ~cache_has(cacheEngine',
                             userPermissionsKey(decodedUserId(last'.args[1].authorization.token)))
        /\ (last'.op = "hasPermission" /\ last'.ret.threw) =>
                 /\ last'.ok
                 /\ last'.ret.result = FALSE
                 /\ cacheEngine' = cacheEngine
      ]_vars

\* with the cache on, the request of user 1 for a declared route was answered 500 and
\* the cache has no entry for the user
C37_Witness ==
    /\ last.op = "authMiddleware" /\ identified(last.args[1])
    /\ last.ret.status = 500 /\ last.ret.userId = 1
    /\ cache = "in-memory" /\ ~cache_has(cacheEngine, userPermissionsKey(1))
    /\ <<1, 1>> \in AccessGroupUser

(***************************************************************************)
(* Properties of a declaration that is removed and made again.             *)
(***************************************************************************)
\* the grants of permission_id to the groups of user_id whose declaration has been
\* removed (ResourceNames has one name, so the declaration was of that name)
grantsOfRemovedDeclaration(permission_id, user_id) ==
    { q \in ResourceLevelPermission :
        /\ q.permission_id = permission_id
        /\ q.access_group_id \in accessGroupIdsOf(user_id)
        /\ \A t \in ResourceLevelPermissionType : t.id # q.resource_type_id }

\* C38: once type T has been removed for P and declared again, the new declaration
\* is another row, so getResourceLevelPermissions(T, P, U) returns none of the resource
\* ids granted under the removed declaration unless they were granted again, while the
\* old grants still exist and still forbid the deletion of their group.
C38_RedeclaredTypeStartsEmpty ==
    (/\ last.op = "getResourceLevelPermissions" /\ last.ok
     /\ resourceTypeFor(last.args[2], last.args[1]) # {}) =>
        \A q \in grantsOfRemovedDeclaration(last.args[2], last.args[3]) :
           /\ \A t \in resourceTypeFor(last.args[2], last.args[1]) : t.id # q.resource_type_id
           /\ q.resource_id \notin grantedResourceIds(last.args[1], last.args[2], last.args[3]) =>
                 q.resource_id \notin last.ret
           /\ deleteAccessGroupBlocked(q.access_group_id)

====
